---- MODULE Spec2Model ----
(***************************************************************************)
(* A model of sdlanggo: the SAX tokenizer (SaxParser.Next and the lexers   *)
(* it dispatches to), the value model (SdlValue and its accessors) and the *)
(* tree builder (SaxParser.ParseIntoAst, handleValue).                     *)
(*                                                                         *)
(* A Go string is modelled as a sequence of one-character strings, a byte  *)
(* offset as a 0-based natural number (Input[i] in Go is Input[i+1] here). *)
(* A run-time panic of Go (index or slice out of range, panic(...)) is an  *)
(* outcome of its own, distinct from a returned error.                     *)
(***************************************************************************)
EXTENDS Integers, Sequences, FiniteSets, TLC

VARIABLES
    Input,          \* SaxParser.Input, fixed for a run
    sax,            \* the caller's SaxParser (cursor, t, text, addText, ...)
    saxStatus,      \* outcome of the caller's last Next call: "ok", "err", "panic"
    saxErr,         \* the error (or panic) of the caller's last Next call
    saxVia,         \* which branch of Next produced the caller's last token
    saxPrev,        \* the caller's parser as it was before its last Next call
    saxUsed,        \* TRUE once the caller has called Next
    pc,             \* "idle", or the position of ParseIntoAst: "loop", "done", "error", "panic"
    p,              \* ParseIntoAst's receiver (a copy of the caller's parser)
    currTagStack,   \* ParseIntoAst's stack of in-progress tags
    prevWasNewLine, \* ParseIntoAst's flag
    result,         \* the SdlTag ParseIntoAst returned
    err,            \* the error ParseIntoAst returned, or the panic it died of
    branch,         \* the branch the last loop iteration of ParseIntoAst took
    fresh,          \* TRUE when ParseIntoAst was called on a parser that made no Next call
    pushed,         \* number of tags ParseIntoAst pushed
    line,           \* the current logical line: whether it pushed a tag, and the
                    \* attributes (qualified name, value) it has set so far, in order
    val,            \* value model: the SdlValue an accessor is applied to
    got             \* value model: what the accessor returned

vars == <<Input, sax, saxStatus, saxErr, saxVia, saxPrev, saxUsed, pc, p,
          currTagStack, prevWasNewLine, result, err, branch, fresh, pushed,
          line, val, got>>

parserVars == <<sax, saxStatus, saxErr, saxVia, saxPrev, saxUsed>>
astVars == <<pc, p, currTagStack, prevWasNewLine, result, err, branch, fresh,
             pushed, line>>
valueVars == <<val, got>>

----------------------------------------------------------------------------
(* Characters *)

LowerLetters == {"a", "b", "c", "d", "e", "f", "g", "h", "i", "j", "k", "l", "m",
                 "n", "o", "p", "q", "r", "s", "t", "u", "v", "w", "x", "y", "z"}
UpperLetters == {"A", "B", "C", "D", "E", "F", "G", "H", "I", "J", "K", "L", "M",
                 "N", "O", "P", "Q", "R", "S", "T", "U", "V", "W", "X", "Y", "Z"}
Digits == {"0", "1", "2", "3", "4", "5", "6", "7", "8", "9"}

\* what peek returns past the end of the input: the byte 0xff
EOFCH == "0xff"

\* the backtick character (0x60), which a TLA+ string cannot hold
BACKTICK == "0x60"

isIdentifierStart(ch) == ch \in LowerLetters \cup UpperLetters \cup {"_"}

isDigit(ch) == ch \in Digits

isIdentifierContinue(ch) ==
    ch \in LowerLetters \cup UpperLetters \cup {"_"} \cup Digits \cup {"-", ".", "$"}

----------------------------------------------------------------------------
(* Go primitives *)

\* s.Input[a:b]; the callers below establish 0 <= a <= b <= len(Input) first
Slice(a, b) == SubSeq(Input, a + 1, b)

\* whether the slice expression s.Input[a:b] panics
SlicePanics(a, b) == a < 0 \/ b > Len(Input) \/ a > b

\* whether the index expression s.Input[i] panics
IndexPanics(i) == i < 0 \/ i >= Len(Input)

DigitVal(ch) == CASE ch = "0" -> 0 [] ch = "1" -> 1 [] ch = "2" -> 2 [] ch = "3" -> 3
                  [] ch = "4" -> 4 [] ch = "5" -> 5 [] ch = "6" -> 6 [] ch = "7" -> 7
                  [] ch = "8" -> 8 [] ch = "9" -> 9

\* the number a run of digits denotes: its two halves, side by side
RECURSIVE DigitsVal(_)
DigitsVal(ds) ==
    IF ds = <<>> THEN 0
    ELSE IF Len(ds) = 1 THEN DigitVal(ds[1])
    ELSE DigitsVal(SubSeq(ds, 1, Len(ds) \div 2)) * (10 ^ (Len(ds) - (Len(ds) \div 2)))
         + DigitsVal(SubSeq(ds, (Len(ds) \div 2) + 1, Len(ds)))

\* an int64 is written as a sign and the three limbs of its magnitude,
\* a * 10^12 + b * 10^6 + c with b and c below 10^6; zero has no sign
Int64(neg, a, b, c) == [neg |-> neg /\ (a > 0 \/ b > 0 \/ c > 0), a |-> a, b |-> b, c |-> c]

ZeroInt64 == Int64(FALSE, 0, 0, 0)

\* math.MaxInt64 = 2^63 - 1 and math.MinInt64 = -2^63
MaxInt64 == Int64(FALSE, 9223372, 36854, 775807)
MinInt64 == Int64(TRUE, 9223372, 36854, 775808)

\* the int64 of a small number n
Int64Of(n) ==
    LET m == IF n < 0 THEN 0 - n ELSE n
    IN  Int64(n < 0, 0, m \div 1000000, m % 1000000)

\* |x| < |y|
MagnitudeLess(x, y) ==
    \/ x.a < y.a
    \/ x.a = y.a /\ x.b < y.b
    \/ x.a = y.a /\ x.b = y.b /\ x.c < y.c

\* ds without its leading zeros
TrimZeros(ds) ==
    LET nz == {i \in 1..Len(ds) : ds[i] # "0"}
    IN  IF nz = {} THEN <<>> ELSE SubSeq(ds, CHOOSE i \in nz : \A j \in nz : i <= j, Len(ds))

\* the magnitude of a run of at most 21 decimal digits
Magnitude(ds) ==
    LET limbs(padded) ==
            Int64(FALSE, DigitsVal(SubSeq(padded, 1, 9)), DigitsVal(SubSeq(padded, 10, 15)),
                  DigitsVal(SubSeq(padded, 16, 21)))
    IN  limbs([i \in 1..(21 - Len(ds)) |-> "0"] \o ds)

\* the digits at the start of str, up to its first character that is no digit
DigitRun(str) ==
    LET stop == {i \in 1..Len(str) : ~isDigit(str[i])}
    IN  IF stop = {} THEN str ELSE SubSeq(str, 1, (CHOOSE i \in stop : \A j \in stop : i <= j) - 1)

\* strconv.ParseInt(str, 10, 64): an optional sign, then one or more decimal digits
\* and nothing else. The digits are read from the left: once they pass 2^64 - 1 the
\* call ends with a range error, whatever follows; else a character that is no digit
\* (or no digit at all) ends it with 0 and a syntax error. A range error, and a
\* number beyond the int64 range, yield the nearest end of that range.
ParseInt(str) ==
    LET \* math.MaxUint64 = 2^64 - 1, the largest number ParseUint reads
        maxUint64 == Int64(FALSE, 18446744, 73709, 551615)
        \* the digits read are run, of magnitude mag, and they are all of the body or not
        clamped(neg, limit, all, run, mag) ==
            IF Len(run) > 20 \/ MagnitudeLess(maxUint64, mag) THEN [ok |-> FALSE, val |-> limit]
            ELSE IF ~all THEN [ok |-> FALSE, val |-> ZeroInt64]
            ELSE IF MagnitudeLess(limit, mag) THEN [ok |-> FALSE, val |-> limit]
            ELSE [ok |-> TRUE, val |-> Int64(neg, mag.a, mag.b, mag.c)]
        digits(neg, body, run) ==
            clamped(neg, IF neg THEN MinInt64 ELSE MaxInt64, body # <<>> /\ Len(run) = Len(body),
                    TrimZeros(run), Magnitude(TrimZeros(run)))
        unsigned(neg, body) == digits(neg, body, DigitRun(body))
    IN  IF str # <<>> /\ str[1] \in {"-", "+"} THEN unsigned(str[1] = "-", Tail(str))
        ELSE unsigned(FALSE, str)

\* strconv.Atoi(str): ParseInt(str, 10, 0) with the 64 bits of int
Atoi(str) == ParseInt(str)

\* an int64 as a number, for what Atoi reads in a slice of at most four characters
IntOf(x) == IF x.neg THEN 0 - (x.b * 1000000 + x.c) ELSE x.b * 1000000 + x.c

\* time.Duration is an int64 count of nanoseconds. A duration d is written here
\* in three limbs, d = h * 3,600,000,000,000 + ms * 1,000,000 + ns nanoseconds,
\* with 0 <= ms < MsPerHour and 0 <= ns < NsPerMs; the sign is carried by h alone
\* (minus 150 seconds is h = -1, ms = 3450000, ns = 0)
NsPerMs == 1000000
MsPerHour == 3600000

Duration(h, ms, ns) ==
    [h |-> h + ((ms + (ns \div NsPerMs)) \div MsPerHour),
     ms |-> (ms + (ns \div NsPerMs)) % MsPerHour,
     ns |-> ns % NsPerMs]

ZeroDuration == Duration(0, 0, 0)

DurationLess(a, b) ==
    \/ a.h < b.h
    \/ a.h = b.h /\ a.ms < b.ms
    \/ a.h = b.h /\ a.ms = b.ms /\ a.ns < b.ns

\* 2^63 and 2^64 nanoseconds: an int64 holds -2^63 .. 2^63 - 1
TwoTo63 == [h |-> 2562047, ms |-> 2836854, ns |-> 775808]
TwoTo64 == [h |-> 5124095, ms |-> 2073709, ns |-> 551616]

\* the int64 that two's complement arithmetic leaves for the number d: d less the
\* multiple of 2^64 that brings it into -2^63 .. 2^63 - 1 (the quotient q of the
\* hours is that multiple or next to it)
Wrap64(d) ==
    LET once(e) ==
            IF ~DurationLess(e, TwoTo63)
            THEN Duration(e.h - TwoTo64.h, e.ms - TwoTo64.ms, e.ns - TwoTo64.ns)
            ELSE IF DurationLess(e, Duration(0 - TwoTo63.h, 0 - TwoTo63.ms, 0 - TwoTo63.ns))
            THEN Duration(e.h + TwoTo64.h, e.ms + TwoTo64.ms, e.ns + TwoTo64.ns)
            ELSE e
        less(q) == once(Duration(d.h - q * TwoTo64.h, d.ms - q * TwoTo64.ms, d.ns - q * TwoTo64.ns))
    IN  less((d.h + TwoTo63.h) \div TwoTo64.h)

\* a + b and a * n on time.Duration, with int64 overflow
DurationAdd(a, b) == Wrap64(Duration(a.h + b.h, a.ms + b.ms, a.ns + b.ns))
DurationMul(a, n) == Wrap64(Duration(a.h * n, a.ms * n, a.ns * n))

\* time.Hour, time.Minute, time.Second, time.Millisecond
Millisecond == Duration(0, 1, 0)
Second == Duration(0, 1000, 0)
Minute == Duration(0, 60000, 0)
Hour == Duration(1, 0, 0)

\* <<a, a * 100, ..., a * 100^(n - 1)>>, each an int64
RECURSIVE Hundreds(_, _)
Hundreds(a, n) ==
    IF n = 1 THEN <<a>>
    ELSE LET r == Hundreds(a, n - 1) IN Append(r, DurationMul(r[n - 1], 100))

\* time.Hour * time.Duration(24), and its products with the powers of 100
DayHundreds == Hundreds(DurationMul(Hour, 24), 10)

\* time.Hour * time.Duration(24) * time.Duration(x) for an int64 x of any size, with
\* int64 overflow: limb by limb in base 100, lowest limb first,
\* day * (l1 + 100 * l2 + ...) = l1 * day + l2 * (day * 100) + ...
DayMul(x) ==
    LET \* l[i] * w[i] + ... + l[i + 4] * w[i + 4], as an int64
        sum(l, w, i) ==
            Wrap64(Duration(
                l[i] * w[i].h + l[i + 1] * w[i + 1].h + l[i + 2] * w[i + 2].h
                    + l[i + 3] * w[i + 3].h + l[i + 4] * w[i + 4].h,
                l[i] * w[i].ms + l[i + 1] * w[i + 1].ms + l[i + 2] * w[i + 2].ms
                    + l[i + 3] * w[i + 3].ms + l[i + 4] * w[i + 4].ms,
                l[i] * w[i].ns + l[i + 1] * w[i + 1].ns + l[i + 2] * w[i + 2].ns
                    + l[i + 3] * w[i + 3].ns + l[i + 4] * w[i + 4].ns))
        product(l, w) == DurationAdd(sum(l, w, 1), sum(l, w, 6))
        signed(d) == IF x.neg THEN DurationMul(d, 0 - 1) ELSE d
    IN  signed(product(<<x.c % 100, (x.c \div 100) % 100, x.c \div 10000,
                         x.b % 100, (x.b \div 100) % 100, x.b \div 10000,
                         x.a % 100, (x.a \div 100) % 100, (x.a \div 10000) % 100,
                         x.a \div 1000000>>,
                       DayHundreds))


----------------------------------------------------------------------------
(* SaxParser: cursor primitives *)

\* the zero value of time.Time, and of a SaxParser
ZeroTime == [year |-> 1, month |-> 1, day |-> 1, hour |-> 0, min |-> 0, sec |-> 0, nsec |-> 0]

SaxParser == [cursor |-> 0, t |-> "failsafe", text |-> <<>>, addText |-> <<>>,
              dateTime |-> ZeroTime, timeSpan |-> ZeroDuration, boolean |-> FALSE]

peekAt(c) == IF c >= Len(Input) THEN EOFCH ELSE Input[c + 1]

peek(s, offset) == peekAt(s.cursor + offset)

advance(s, amount) == [s EXCEPT !.cursor = @ + amount]

eof(s) == s.cursor >= Len(Input)

RECURSIVE eatWhiteFrom(_)
eatWhiteFrom(c) == IF c < Len(Input) /\ peekAt(c) \in {" ", "\t"} THEN eatWhiteFrom(c + 1) ELSE c

\* a blank skipper that skips one space at most, and no tab
eatWhiteSpacesOnly(s) ==
    [s EXCEPT !.cursor = IF @ < Len(Input) /\ peekAt(@) = " " THEN @ + 1 ELSE @]

eatWhite(s) == [s EXCEPT !.cursor = eatWhiteFrom(@)]

RECURSIVE lineStart(_)
lineStart(start) == IF start > 0 /\ Input[start + 1] # "\n" THEN lineStart(start - 1) ELSE start

RECURSIVE lineEnd(_)
lineEnd(end) == IF end < Len(Input) /\ Input[end + 1] \notin {"\n", "\r"} THEN lineEnd(end + 1) ELSE end

\* getLine, its last step: return s.Input[start:end], at - start, line
getLineCut(at, start, end) ==
    IF SlicePanics(start, end) THEN [panic |-> TRUE]
    ELSE [panic |-> FALSE,
          line |-> Slice(start, end),
          loc |-> at - start,
          ln |-> 1 + Cardinality({i \in 0..(start - 1) : Input[i + 1] = "\n"})]

\* getLine, after its two scanning loops: if s.Input[start] == '\n' { start++ }
getLineScan(at, start) ==
    IF IndexPanics(start) THEN [panic |-> TRUE]
    ELSE getLineCut(at, IF Input[start + 1] = "\n" THEN start + 1 ELSE start,
                    IF at < Len(Input) THEN lineEnd(at) ELSE at)

\* getLine, its first statement: start steps back from the end of input or a newline
getLineStart(at) ==
    IF at > 0 /\ (at >= Len(Input) \/ Input[at + 1] = "\n") THEN at - 1 ELSE at

\* getLine, from the first loop on, which reads s.Input[start] when start > 0
getLineFrom(at, start) ==
    IF at < 0 \/ (start > 0 /\ IndexPanics(start)) THEN [panic |-> TRUE]
    ELSE getLineScan(at, lineStart(start))

\* getLine(at): the line around offset `at`, the column of `at` in it and its number;
\* panic is TRUE when an index or slice expression of getLine is out of range
getLine(at) == getLineFrom(at, getLineStart(at))

----------------------------------------------------------------------------
(* Outcomes of a lexer: the parser after the call, and how the call ended *)

Ok(s, via) == [kind |-> "ok", s |-> s, err |-> "", ats |-> <<>>, via |-> via,
               comment |-> FALSE, cont |-> FALSE]

\* an error built from getLine(ats[1]), getLine(ats[2]), ...: a returned error,
\* unless one of the getLine calls panics
Raise(s, name, ats) ==
    [kind |-> IF \E i \in 1..Len(ats) : getLine(ats[i]).panic THEN "panic" ELSE "err",
     s |-> s, err |-> name, ats |-> ats, via |-> "error", comment |-> FALSE, cont |-> FALSE]

\* a slice or index expression of the lexer itself was out of range
Panic(s) == [kind |-> "panic", s |-> s, err |-> "out of range", ats |-> <<>>,
             via |-> "error", comment |-> FALSE, cont |-> FALSE]

----------------------------------------------------------------------------
(* SaxParser: the lexers *)

RECURSIVE identEnd(_)
identEnd(c) == IF isIdentifierContinue(peekAt(c)) THEN identEnd(c + 1) ELSE c

\* nextIdentifier, after its first scan: the identifier is Input[start:end]
identifierWord(s, t1, start, end, word) ==
    IF word \in {<<"t", "r", "u", "e">>, <<"o", "n">>}
    THEN [s EXCEPT !.cursor = end, !.t = "boolean",
                   !.text = <<"t", "r", "u", "e">>, !.boolean = TRUE]
    ELSE IF word \in {<<"f", "a", "l", "s", "e">>, <<"o", "f", "f">>}
    THEN [s EXCEPT !.cursor = end, !.t = "boolean",
                   !.text = <<"f", "a", "l", "s", "e">>, !.boolean = FALSE]
    ELSE IF word = <<"n", "u", "l", "l">>
    THEN [s EXCEPT !.cursor = end, !.t = "null", !.text = <<"n", "u", "l", "l">>]
    ELSE IF peekAt(end) # ":"
    THEN [s EXCEPT !.cursor = end, !.t = t1, !.text = word, !.addText = <<>>]
    ELSE [s EXCEPT !.cursor = identEnd(end + 1), !.t = t1, !.addText = word,
                   !.text = Slice(end + 1, identEnd(end + 1))]

\* an identifier classified by a preceding NewLine alone, the first token excepted
nextIdentifierAfterNewLineOnly(s) ==
    identifierWord(s, IF s.t = "newLine" THEN "tagName" ELSE "attributeName",
                   s.cursor, identEnd(s.cursor), Slice(s.cursor, identEnd(s.cursor)))

\* nextIdentifier never fails: it returns the parser after the identifier
nextIdentifier(s) ==
    identifierWord(s, IF s.t \in {"newLine", "failsafe"} THEN "tagName" ELSE "attributeName",
                   s.cursor, identEnd(s.cursor), Slice(s.cursor, identEnd(s.cursor)))

\* the loop of nextDoubleQuotedString: s.cursor is the cursor, text and start its locals
RECURSIVE doubleQuotedLoop(_, _, _, _)
doubleQuotedLoop(s, text, start, debugStart) ==
    IF eof(s) \/ peek(s, 0) = "\n"
    THEN Raise(s, "UnterminatedString", <<debugStart, s.cursor>>)
    ELSE IF peek(s, 0) = "\\"
    THEN LET text1 == text \o Slice(start, s.cursor)
             s1 == advance(s, 1)
             ch == peek(s1, 0)
             s2 == advance(s1, 1)
         IN  IF ch = "n" THEN doubleQuotedLoop(s2, text1 \o <<"\n">>, s2.cursor, debugStart)
             ELSE IF ch = "t" THEN doubleQuotedLoop(s2, text1 \o <<"\t">>, s2.cursor, debugStart)
             ELSE IF ch = "r" THEN doubleQuotedLoop(s2, text1 \o <<"\r">>, s2.cursor, debugStart)
             ELSE IF ch = "\"" THEN doubleQuotedLoop(s2, text1 \o <<"\"">>, s2.cursor, debugStart)
             ELSE IF ch = "\\" THEN doubleQuotedLoop(s2, text1 \o <<"\\">>, s2.cursor, debugStart)
             ELSE IF ch = "\n"
             THEN LET s3 == [s2 EXCEPT !.cursor = eatWhiteFrom(@)]
                  IN  doubleQuotedLoop(s3, text1, s3.cursor, debugStart)
             ELSE Raise(s1, "InvalidEscape", <<s1.cursor>>)
    ELSE IF peek(s, 0) = "\""
    THEN Ok([advance(s, 1) EXCEPT !.text = text \o Slice(start, s.cursor)], "string")
    ELSE doubleQuotedLoop(advance(s, 1), text, start, debugStart)

nextDoubleQuotedString(s) ==
    LET s1 == [advance(s, 1) EXCEPT !.t = "string_"]
    IN  doubleQuotedLoop(s1, <<>>, s1.cursor, s.cursor)

RECURSIVE backtickLoop(_, _, _)
backtickLoop(s, start, debugStart) ==
    IF eof(s) THEN Raise(s, "UnterminatedString", <<debugStart, s.cursor>>)
    ELSE IF peek(s, 0) = BACKTICK
    THEN Ok([advance(s, 1) EXCEPT !.text = Slice(start, s.cursor)], "string")
    ELSE IF peek(s, 0) = "\r" THEN Raise(s, "CarriageReturnInRawString", <<s.cursor>>)
    ELSE backtickLoop(advance(s, 1), start, debugStart)

nextBacktickString(s) ==
    LET s1 == [advance(s, 1) EXCEPT !.t = "string_"]
    IN  backtickLoop(s1, s1.cursor, s.cursor)

RECURSIVE binaryLoop(_, _, _)
binaryLoop(s, text, debugStart) ==
    IF eof(s) THEN Raise(s, "UnterminatedBinary", <<debugStart, s.cursor>>)
    ELSE IF peek(s, 0) = "]" THEN Ok([advance(s, 1) EXCEPT !.text = text], "binary")
    ELSE IF peek(s, 0) \in {" ", "\t", "\n", "\r"} THEN binaryLoop(advance(s, 1), text, debugStart)
    ELSE binaryLoop(advance(s, 1), Append(text, peek(s, 0)), debugStart)

nextBinary(s) ==
    binaryLoop([advance(s, 1) EXCEPT !.t = "binary"], <<>>, s.cursor)

----------------------------------------------------------------------------
(* SaxParser: numbers, durations, dates *)

\* time.Date(year, month, day, hour, min, sec, nsec, time.UTC), for fields in range
\* the calendar of time.Date (proleptic Gregorian)
isLeap(year) == year % 4 = 0 /\ (year % 100 # 0 \/ year % 400 = 0)

daysIn(year, month) ==
    IF month = 2 THEN (IF isLeap(year) THEN 29 ELSE 28)
    ELSE IF month \in {4, 6, 9, 11} THEN 30 ELSE 31

\* a day outside its month moves the date by whole months (month is in 1..12)
RECURSIVE dayFix(_, _, _)
dayFix(year, month, day) ==
    IF day < 1
    THEN LET y == IF month = 1 THEN year - 1 ELSE year
             m == IF month = 1 THEN 12 ELSE month - 1
         IN  dayFix(y, m, day + daysIn(y, m))
    ELSE IF day > daysIn(year, month)
    THEN dayFix(IF month = 12 THEN year + 1 ELSE year, IF month = 12 THEN 1 ELSE month + 1,
                day - daysIn(year, month))
    ELSE [year |-> year, month |-> month, day |-> day]

\* time.Date(year, month, day, hour, min, sec, nsec, time.UTC): values outside their
\* usual ranges are normalised, each carrying into the next larger unit
timeDate(year, month, day, hour, min, sec, nsec) ==
    LET sec1 == sec + (nsec \div 1000000000)
        min1 == min + (sec1 \div 60)
        hour1 == hour + (min1 \div 60)
        day1 == day + (hour1 \div 24)
        d == dayFix(year + ((month - 1) \div 12), ((month - 1) % 12) + 1, day1)
    IN  [year |-> d.year, month |-> d.month, day |-> d.day,
         hour |-> hour1 % 24, min |-> min1 % 60, sec |-> sec1 % 60, nsec |-> nsec % 1000000000]

\* nextTimeSpan, its arithmetic: the fields are converted with strconv.Atoi, whose
\* errors are dropped (a field that is no number counts as 0)
timeSpanValue(isNegative0, daysn0, hoursn, minsn, secondsn, nsecsn) ==
    LET isNegative == isNegative0 \/ daysn0.neg
        \* daysn *= -1: the negation of -2^63 is -2^63
        daysn == IF ~isNegative \/ daysn0 = MinInt64 THEN daysn0
                 ELSE Int64(~daysn0.neg, daysn0.a, daysn0.b, daysn0.c)
        span == DurationAdd(DurationAdd(DurationAdd(DurationAdd(
                    DayMul(daysn),
                    DurationMul(Hour, hoursn)),
                    DurationMul(Minute, minsn)),
                    DurationMul(Second, secondsn)),
                    DurationMul(Millisecond, nsecsn))
    IN  IF isNegative THEN DurationMul(span, 0 - 1) ELSE span

\* a duration that is read without moving the cursor past it
timeSpanFieldsInPlace(s, days, isNegative0) ==
    LET c == s.cursor
        hasNsecs == peek(s, 8) = "."
    IN  IF peek(s, 2) # ":" THEN Raise(s, "MalformedTimeSpan", <<c + 2>>)
        ELSE IF peek(s, 5) # ":" THEN Raise(s, "MalformedTimeSpan", <<c + 5>>)
        ELSE IF SlicePanics(c + 6, c + 8) THEN Panic(s)
        ELSE IF hasNsecs /\ ~(isDigit(peek(s, 9)) /\ isDigit(peek(s, 10)) /\ isDigit(peek(s, 11)))
        THEN Raise(s, "MalformedTimeSpan", <<c + 9>>)
        ELSE Ok([s EXCEPT
                    !.t = "timeSpan",
                    !.timeSpan = timeSpanValue(isNegative0,
                                     Atoi(days).val,
                                     IntOf(Atoi(Slice(c, c + 2)).val),
                                     IntOf(Atoi(Slice(c + 3, c + 5)).val),
                                     IntOf(Atoi(Slice(c + 6, c + 8)).val),
                                     IntOf(Atoi(IF hasNsecs THEN Slice(c + 9, c + 12) ELSE <<>>).val))],
                "timeSpan")

\* nextTimeSpan, from the colon checks on: s is the parser at the hour field
timeSpanFields(s, days, isNegative0) ==
    LET c == s.cursor
        hasNsecs == peek(s, 8) = "."
    IN  IF peek(s, 2) # ":" THEN Raise(s, "MalformedTimeSpan", <<c + 2>>)
        ELSE IF peek(s, 5) # ":" THEN Raise(s, "MalformedTimeSpan", <<c + 5>>)
        ELSE IF SlicePanics(c + 6, c + 8) THEN Panic(s)
        ELSE IF hasNsecs /\ ~(isDigit(peek(s, 9)) /\ isDigit(peek(s, 10)) /\ isDigit(peek(s, 11)))
        THEN Raise(s, "MalformedTimeSpan", <<c + 9>>)
        ELSE Ok([advance(s, IF hasNsecs THEN 12 ELSE 8) EXCEPT
                    !.t = "timeSpan",
                    !.timeSpan = timeSpanValue(isNegative0,
                                     Atoi(days).val,
                                     IntOf(Atoi(Slice(c, c + 2)).val),
                                     IntOf(Atoi(Slice(c + 3, c + 5)).val),
                                     IntOf(Atoi(Slice(c + 6, c + 8)).val),
                                     IntOf(Atoi(IF hasNsecs THEN Slice(c + 9, c + 12) ELSE <<>>).val))],
                "timeSpan")

\* nextTimeSpan(first), called with the cursor right after the digit run `first`
nextTimeSpan(s, first) ==
    IF peek(s, 0) = "d"
    THEN IF peek(s, 1) # ":" THEN Raise(s, "MalformedTimeSpan", <<s.cursor>>)
         ELSE timeSpanFields(advance(s, 2), first, first[1] = "-")
    \* without a day prefix the cursor backtracks to the first digit
    ELSE timeSpanFields([s EXCEPT !.cursor = @ - Len(first) + (IF first[1] = "-" THEN 1 ELSE 0)],
                        <<>>, first[1] = "-")

\* nextDate, once the three fields are converted
dateFields(s, year, month, day) ==
    IF ~year.ok \/ ~month.ok \/ ~day.ok THEN Raise(s, "MalformedDate", <<s.cursor>>)
    ELSE Ok([advance(s, 10) EXCEPT
                !.dateTime = timeDate(IntOf(year.val), IntOf(month.val), IntOf(day.val), 0, 0, 0, 0),
                !.t = "date"], "date")

nextDate(s) ==
    IF s.cursor + 10 > Len(Input) THEN Raise(s, "MalformedDate", <<s.cursor>>)
    ELSE IF peek(s, 7) # "/" THEN Raise(s, "MalformedDate", <<s.cursor + 7>>)
    ELSE dateFields(s, Atoi(Slice(s.cursor, s.cursor + 4)),
                    Atoi(Slice(s.cursor + 5, s.cursor + 7)),
                    Atoi(Slice(s.cursor + 8, s.cursor + 10)))

\* nextDateTime, the end: s is the parser after the time of day (and its fraction)
dateTimeValue(s, hours, minutes, seconds, frac) ==
    IF ~frac.ok THEN Raise(s, "MalformedDateTime", <<s.cursor - 3>>)
    ELSE Ok([s EXCEPT !.t = "dateTime",
                      !.dateTime = timeDate(s.dateTime.year, s.dateTime.month, s.dateTime.day,
                                            IntOf(hours.val), IntOf(minutes.val), IntOf(seconds.val),
                                            IntOf(frac.val))],
            "dateTime")

\* nextDateTime, after s.advance(8): the optional fraction
dateTimeFraction(s, hours, minutes, seconds) ==
    IF peek(s, 0) # "." THEN dateTimeValue(s, hours, minutes, seconds, [ok |-> TRUE, val |-> ZeroInt64])
    ELSE IF s.cursor + 4 > Len(Input) THEN Raise(s, "MalformedDateTime", <<s.cursor>>)
    ELSE dateTimeValue(advance(s, 4), hours, minutes, seconds,
                       Atoi(Slice(s.cursor + 1, s.cursor + 4)))

\* nextDateTime, once hours, minutes and seconds are converted
dateTimeFields(s, hours, minutes, seconds) ==
    IF ~hours.ok \/ ~minutes.ok \/ ~seconds.ok THEN Raise(s, "MalformedDateTime", <<s.cursor>>)
    ELSE dateTimeFraction(advance(s, 8), hours, minutes, seconds)

\* nextDateTime, after s.eatWhite(): s is the parser at the time of day
dateTimeOfDay(s) ==
    IF s.cursor + 8 > Len(Input) THEN Raise(s, "MalformedDateTime", <<s.cursor>>)
    ELSE IF peek(s, 5) # ":" THEN Raise(s, "MalformedDateTime", <<s.cursor + 5>>)
    ELSE dateTimeFields(s, Atoi(Slice(s.cursor, s.cursor + 2)),
                        Atoi(Slice(s.cursor + 3, s.cursor + 5)),
                        Atoi(Slice(s.cursor + 6, s.cursor + 8)))

\* nextDateTime, after its call of nextDate, whose outcome is d
dateTimeAfterDate(d) == IF d.kind # "ok" THEN d ELSE dateTimeOfDay(eatWhite(d.s))

nextDateTime(s) == dateTimeAfterDate(nextDate(s))

\* the digit loop of nextNumeric, from cursor c: where it stops, whether it saw a
\* decimal point, and whether it stopped at a second one
RECURSIVE numericLoop(_, _)
numericLoop(c, foundDot) ==
    IF c >= Len(Input) THEN [c |-> c, foundDot |-> foundDot, multi |-> FALSE]
    ELSE IF peekAt(c) = "."
    THEN IF foundDot THEN [c |-> c, foundDot |-> TRUE, multi |-> TRUE]
         ELSE numericLoop(c + 1, TRUE)
    ELSE IF ~isDigit(peekAt(c)) THEN [c |-> c, foundDot |-> foundDot, multi |-> FALSE]
    ELSE numericLoop(c + 1, foundDot)

\* nextNumeric, the end: s is the parser after the suffix, with its kind set
numericEnd(s, num) ==
    IF ~eof(s) /\ peek(s, 0) \notin {" ", "\n", "\r"}
    THEN Raise(s, "TrailingGarbageAfterNumber", <<s.cursor>>)
    ELSE Ok([s EXCEPT !.text = num], "number")

\* a suffix step that takes every number without a suffix for an Integer
numericSuffixIgnoringDot(s, num, foundDot) ==
    IF peek(s, 0) \in {"d", ":"} THEN nextTimeSpan(s, num)
    ELSE IF peek(s, 0) = "L" THEN numericEnd([advance(s, 1) EXCEPT !.t = "long"], num)
    ELSE IF peek(s, 0) = "F" THEN numericEnd([advance(s, 1) EXCEPT !.t = "float"], num)
    ELSE IF peek(s, 0) = "D" THEN numericEnd([advance(s, 1) EXCEPT !.t = "double"], num)
    ELSE numericEnd([s EXCEPT !.t = "integer"], num)

\* nextNumeric, after the digit loop: s is the parser at the end of the digit run num
numericSuffix(s, num, foundDot) ==
    IF peek(s, 0) \in {"d", ":"} THEN nextTimeSpan(s, num)
    ELSE IF peek(s, 0) = "L" THEN numericEnd([advance(s, 1) EXCEPT !.t = "long"], num)
    ELSE IF peek(s, 0) = "F" THEN numericEnd([advance(s, 1) EXCEPT !.t = "float"], num)
    ELSE IF peek(s, 0) = "D" THEN numericEnd([advance(s, 1) EXCEPT !.t = "double"], num)
    ELSE IF foundDot THEN numericEnd([s EXCEPT !.t = "double"], num)
    ELSE numericEnd([s EXCEPT !.t = "integer"], num)

\* nextNumeric, given the outcome r of its digit loop
numericDigits(s, r) ==
    IF r.multi THEN Raise([s EXCEPT !.cursor = r.c], "MultipleDecimalPoints", <<r.c>>)
    ELSE numericSuffix([s EXCEPT !.cursor = r.c], Slice(s.cursor, r.c), r.foundDot)

nextNumeric(s) ==
    IF peek(s, 4) = "/"
    THEN IF peek(s, 13) = ":" /\ isDigit(peek(s, 11)) /\ isDigit(peek(s, 12))
         THEN nextDateTime(s)
         ELSE nextDate(s)
    ELSE numericDigits(s, numericLoop(IF peek(s, 0) = "-" THEN s.cursor + 1 ELSE s.cursor, FALSE))

----------------------------------------------------------------------------
(* SaxParser.Next *)

RECURSIVE commentEnd(_)
commentEnd(c) == IF c < Len(Input) /\ peekAt(c) # "\n" THEN commentEnd(c + 1) ELSE c

\* an identifier token returned without looking at the character after it
identifierTokenUnchecked(s) == Ok(s, "identifier")

\* Next, after nextIdentifier returned the parser s: an attribute name needs its '='
identifierToken(s) ==
    IF s.t = "attributeName"
    THEN IF peek(s, 0) # "="
         THEN [Raise(s, "MissingEquals", <<s.cursor>>) EXCEPT !.via = "identifier"]
         ELSE Ok(advance(s, 1), "identifier")
    ELSE Ok(s, "identifier")

\* a content tag that swallows the character it was synthesised for
contentTagConsuming(s) ==
    Ok([advance(s, 1) EXCEPT !.t = "tagName", !.text = <<"c", "o", "n", "t", "e", "n", "t">>],
       "content")

\* s.t = tagName; s.text = "content"; return nil: the cursor stays where it is
contentTag(s) ==
    Ok([s EXCEPT !.t = "tagName", !.text = <<"c", "o", "n", "t", "e", "n", "t">>], "content")

\* Next, from `ch := s.peek(0)` on: s is the parser at the first character of a token
nextToken(s, ch) ==
    IF isIdentifierStart(ch) THEN identifierToken(nextIdentifier(s))
    ELSE IF ch = "{" THEN Ok([advance(s, 1) EXCEPT !.t = "openTag", !.text = <<"{">>], "openTag")
    ELSE IF ch = "}" THEN Ok([advance(s, 1) EXCEPT !.t = "closeTag", !.text = <<"}">>], "closeTag")
    ELSE IF s.t \in {"newLine", "failsafe"}
    THEN contentTag(s)
    ELSE IF ch = "\"" THEN nextDoubleQuotedString(s)
    ELSE IF ch = BACKTICK THEN nextBacktickString(s)
    ELSE IF ch = "[" THEN nextBinary(s)
    ELSE IF isDigit(ch) \/ ch = "-" THEN nextNumeric(s)
    ELSE Raise(s, "UnexpectedCharacter", <<s.cursor>>)

\* an end of input that is reported once and is an error when asked for again
eofTokenOnce(s) ==
    IF s.t = "eof" THEN Raise(s, "UnexpectedCharacter", <<s.cursor>>)
    ELSE Ok([s EXCEPT !.t = "eof"], "eof")

\* if s.eof() { s.t = eof; return nil }
eofToken(s) == Ok([s EXCEPT !.t = "eof"], "eof")

\* Next, after s.eatWhite(): comments and line continuations recurse into Next
RECURSIVE SaxParserNext(_)
nextAfterWhite(s) ==
    IF eof(s) THEN eofToken(s)
    ELSE IF \/ (peek(s, 0) = "/" /\ peek(s, 1) = "/")
            \/ (peek(s, 0) = "-" /\ peek(s, 1) = "-")
            \/ peek(s, 0) = "#"
    THEN [SaxParserNext([s EXCEPT !.cursor = commentEnd(@)]) EXCEPT !.comment = TRUE]
    ELSE IF peek(s, 0) = "\n" THEN Ok([advance(s, 1) EXCEPT !.t = "newLine"], "newLine")
    ELSE IF peek(s, 0) = "\r"
    THEN IF peek(s, 1) # "\n" THEN Raise(s, "MalformedNewline", <<s.cursor>>)
         ELSE Ok([advance(s, 2) EXCEPT !.t = "newLine"], "newLine")
    ELSE IF peek(s, 0) = "\\" /\ peek(s, 1) = "\n"
    THEN [SaxParserNext(advance(s, 2)) EXCEPT !.cont = TRUE]
    ELSE nextToken(s, peek(s, 0))

\* SaxParser.Next: the parser after the call and how the call ended
SaxParserNext(s) == nextAfterWhite(eatWhite(s))

----------------------------------------------------------------------------
(* Value model: SdlValue, its constructors and typed accessors *)

\* a float64 is written as its sign, its 53-bit significand m as a decimal numeral
\* (a sequence of digits 0..9, highest first, <<>> for zero) and its binary exponent:
\* the number m * 2^e, with 2^52 <= m < 2^53 and -1074 <= e <= 971, or m < 2^52 and
\* e = -1074 for a subnormal, or the zero of either sign, or an infinity
ZeroFloat == [neg |-> FALSE, inf |-> FALSE, m |-> <<>>, e |-> 0]

\* the zero value SdlValue{}: tag tNull (iota 0) and every payload zero
SdlValue == [tag |-> "tNull", vString |-> <<>>, vInt |-> ZeroInt64, vFloat |-> ZeroFloat,
             vDateTime |-> ZeroTime, vTimeSpan |-> ZeroDuration, vBool |-> FALSE, vBinary |-> <<>>]

Null == [SdlValue EXCEPT !.tag = "tNull"]
String(value) == [SdlValue EXCEPT !.tag = "tString", !.vString = value]
\* the constructor Int (the name Int is taken by the Integers module)
SdlInt(value) == [SdlValue EXCEPT !.tag = "tInt", !.vInt = value]
Float(value) == [SdlValue EXCEPT !.tag = "tFloat", !.vFloat = value]
DateTime(value) == [SdlValue EXCEPT !.tag = "tDateTime", !.vDateTime = value]
TimeSpan(value) == [SdlValue EXCEPT !.tag = "tTimeSpan", !.vTimeSpan = value]
Bool(value) == [SdlValue EXCEPT !.tag = "tBool", !.vBool = value]
Binary(value) == [SdlValue EXCEPT !.tag = "tBinary", !.vBinary = value]

IsNull(v) == v.tag = "tNull"
IsString(v) == v.tag = "tString"
IsInt(v) == v.tag = "tInt"
IsFloat(v) == v.tag = "tFloat"
IsDateTime(v) == v.tag = "tDateTime"
IsTimeSpan(v) == v.tag = "tTimeSpan"
IsBool(v) == v.tag = "tBool"
IsBinary(v) == v.tag = "tBinary"

\* what an accessor returns: the value and the error ("" is nil)
Returned(name, value, error) == [accessor |-> name, value |-> value, err |-> error]

AsString(v) == IF ~IsString(v) THEN Returned("String", <<>>, "this value is not a string")
               ELSE Returned("String", v.vString, "")
AsInt(v) == IF ~IsInt(v) THEN Returned("Int", ZeroInt64, "this value is not an integer")
            ELSE Returned("Int", v.vInt, "")
AsFloat(v) == IF ~IsString(v) THEN Returned("Float", ZeroFloat, "this value is not a float")
              ELSE Returned("Float", v.vFloat, "")
\* the value returned with the error is time.Now(): any time at all
AsDateTime(v) == IF ~IsDateTime(v) THEN Returned("DateTime", "time.Now()", "this value is not a datetime")
                 ELSE Returned("DateTime", v.vDateTime, "")
AsTimeSpan(v) == IF ~IsTimeSpan(v) THEN Returned("TimeSpan", ZeroDuration, "this value is not a timespan")
                 ELSE Returned("TimeSpan", v.vTimeSpan, "")
AsBool(v) == IF ~IsBool(v) THEN Returned("Bool", FALSE, "this value is not a bool")
             ELSE Returned("Bool", v.vBool, "")
AsBinary(v) == IF ~IsBinary(v) THEN Returned("Binary", <<>>, "this value is not a binary blob")
               ELSE Returned("Binary", v.vBinary, "")

----------------------------------------------------------------------------
(* handleValue *)

\* decimal numerals: x without its leading zeros
NatTrim(x) ==
    LET nz == {i \in 1..Len(x) : x[i] # 0}
    IN  IF nz = {} THEN <<>> ELSE SubSeq(x, CHOOSE i \in nz : \A j \in nz : i <= j, Len(x))

\* x < y for numerals without leading zeros
NatLess(x, y) ==
    \/ Len(x) < Len(y)
    \/ /\ Len(x) = Len(y)
       /\ \E i \in 1..Len(x) : x[i] < y[i] /\ \A j \in 1..(i - 1) : x[j] = y[j]

\* 2 * x: a digit is doubled and takes the carry of the digit to its right
NatTwice(x) ==
    (IF x # <<>> /\ x[1] >= 5 THEN <<1>> ELSE <<>>)
    \o [i \in 1..Len(x) |-> ((2 * x[i]) % 10) + (IF i < Len(x) /\ x[i + 1] >= 5 THEN 1 ELSE 0)]

\* x \div 2: a digit is halved and takes the remainder of the digit to its left
NatHalf(x) ==
    NatTrim([i \in 1..Len(x) |-> (x[i] + (IF i > 1 /\ x[i - 1] % 2 = 1 THEN 10 ELSE 0)) \div 2])

\* x + 1
NatSucc(x) ==
    LET low == {i \in 1..Len(x) : x[i] # 9}
        k == IF low = {} THEN 0 ELSE CHOOSE i \in low : \A j \in low : j <= i
    IN  IF k = 0 THEN <<1>> \o [i \in 1..Len(x) |-> 0]
        ELSE [i \in 1..Len(x) |-> IF i < k THEN x[i] ELSE IF i = k THEN x[i] + 1 ELSE 0]

\* 2^53 and 2^54
TwoTo53 == <<9, 0, 0, 7, 1, 9, 9, 2, 5, 4, 7, 4, 0, 9, 9, 2>>
TwoTo54 == <<1, 8, 0, 1, 4, 3, 9, 8, 5, 0, 9, 4, 8, 1, 9, 8, 4>>

\* a decimal x with e digits after the point: its whole part, and whether there is more
Whole(x, e) == NatTrim(SubSeq(x, 1, Len(x) - e))
HasFraction(x, e) == \E i \in (Len(x) - e + 1)..Len(x) : x[i] # 0

\* x * 2^n and x \div 2^n, by halves of n
RECURSIVE NatShiftUp(_, _)
NatShiftUp(x, n) ==
    IF n = 0 \/ x = <<>> THEN x
    ELSE IF n = 1 THEN NatTwice(x)
    ELSE NatShiftUp(NatShiftUp(x, n \div 2), n - (n \div 2))

RECURSIVE NatShiftDown(_, _)
NatShiftDown(x, n) ==
    IF n = 0 \/ x = <<>> THEN x
    ELSE IF n = 1 THEN NatHalf(x)
    ELSE NatShiftDown(NatShiftDown(x, n \div 2), n - (n \div 2))

\* the decimal x, with e digits after the point, is the number times 2^k: the same for
\* the smallest count of doublings, k or more, that brings the whole part to 2^53 or
\* more, and for 1075 doublings (the bit below the smallest subnormal) if none does
RECURSIVE ScaleUp(_, _, _)
ScaleUp(x, e, k) ==
    IF k < 1075 /\ NatLess(Whole(x, e), TwoTo53) THEN ScaleUp(NatTwice(x), e, k + 1)
    ELSE [whole |-> Whole(x, e), rest |-> HasFraction(x, e), k |-> k]

\* w is the whole part of the number times 2^k (k <= 0), and rest tells whether
\* anything is left below it: the same after the halvings that bring w below 2^54
RECURSIVE ScaleDown(_, _, _)
ScaleDown(w, rest, k) ==
    IF ~NatLess(w, TwoTo54) THEN ScaleDown(NatHalf(w), rest \/ w[Len(w)] % 2 = 1, k - 1)
    ELSE [whole |-> w, rest |-> rest, k |-> k]

\* strconv.ParseFloat(text, 64) on a text of signs, digits and points: a syntax error
\* (and 0) unless the text is an optional sign and digits with at most one point among
\* them; otherwise the float64 nearest to the decimal, ties to the even significand,
\* an infinity with a range error beyond the largest float64, and the sign kept on zero
ParseFloat(text) ==
    LET signed == text # <<>> /\ text[1] \in {"-", "+"}
        neg == signed /\ text[1] = "-"
        body == IF signed THEN Tail(text) ELSE text
        dot == {i \in 1..Len(body) : body[i] = "."}
        digits == SelectSeq(body, isDigit)
        ok == /\ digits # <<>>
              /\ Cardinality(dot) <= 1
              /\ \A i \in 1..Len(body) : isDigit(body[i]) \/ body[i] = "."
        zero == [ok |-> TRUE, val |-> [neg |-> neg, inf |-> FALSE, m |-> <<>>, e |-> 0]]
        infinity == [ok |-> FALSE, val |-> [neg |-> neg, inf |-> TRUE, m |-> <<>>, e |-> 0]]
        odd(n) == n # <<>> /\ n[Len(n)] % 2 = 1
        \* the float64 of significand m, or 2^53 for a rounding that carried, and exponent exp
        float(m, exp) ==
            IF m = <<>> THEN zero
            ELSE IF m = TwoTo53
            THEN IF exp + 1 > 971 THEN infinity
                 ELSE [ok |-> TRUE,
                       val |-> [neg |-> neg, inf |-> FALSE, m |-> NatHalf(TwoTo53), e |-> exp + 1]]
            ELSE IF exp > 971 THEN infinity
            ELSE [ok |-> TRUE, val |-> [neg |-> neg, inf |-> FALSE, m |-> m, e |-> exp]]
        \* s.whole is 54 bits of the number, rounded down, and s.rest tells whether more
        \* follow: half of it is the significand, its last bit is the round bit, and a
        \* tie goes to the even significand
        rounded(s, half) ==
            float(IF odd(s.whole) /\ (s.rest \/ odd(half)) THEN NatSucc(half) ELSE half, 1 - s.k)
        \* w, 2^54 or more, brought below 2^54: by 2^down at once, then bit by bit
        scaledDown(x, e, w, down, shifted) ==
            ScaleDown(shifted, HasFraction(x, e) \/ NatShiftUp(shifted, down) # w, 0 - down)
        \* the decimal x with e digits after the point, whole part w, is below 10^dp and
        \* not below 10^(dp - 1), and 10 lies between 2^3.3219 and 2^3.3220: 2^up times
        \* the decimal is below 2^53, and w over 2^down is not
        scaled(x, e, w, up, down) ==
            IF NatLess(w, TwoTo53) THEN ScaleUp(NatShiftUp(x, up), e, up)
            ELSE IF NatLess(w, TwoTo54) THEN ScaleDown(w, HasFraction(x, e), 0)
            ELSE scaledDown(x, e, w, down, NatShiftDown(w, down))
        finite(s) == rounded(s, NatHalf(s.whole))
        ranged(x, e, w, dp) ==
            IF NatTrim(x) = <<>> \/ dp < 0 - 330 THEN zero
            ELSE IF dp > 310 THEN infinity
            ELSE finite(scaled(x, e, w,
                               IF dp <= 0 /\ 53 + (((0 - dp) * 33219) \div 10000) >= 1075 THEN 1075
                               ELSE IF dp <= 0 THEN 53 + (((0 - dp) * 33219) \div 10000)
                               ELSE IF (dp * 33220) \div 10000 >= 53 THEN 0
                               ELSE 52 - ((dp * 33220) \div 10000),
                               (((Len(w) - 1) * 33219) \div 10000) - 53))
        decimal(x, e) == ranged(x, e, Whole(x, e), Len(NatTrim(x)) - e)
    IN  IF ~ok THEN [ok |-> FALSE, val |-> ZeroFloat]
        ELSE decimal([i \in 1..Len(digits) |-> DigitVal(digits[i])],
                     IF dot = {} THEN 0 ELSE Len(body) - (CHOOSE i \in dot : TRUE))

\* base64.NewDecoder(...).Read(v.vBinary): Read fills the buffer it is given, and
\* v.vBinary is the nil slice, so no byte is stored and v.vBinary stays as it was
DecoderRead(buffer, text) == buffer

\* handleValue(&v, &p) on the zero value v: the value built, or the panic of the last branch
handleValue(v, s) ==
    IF s.t = "binary"
    THEN [panic |-> FALSE, v |-> [v EXCEPT !.tag = "tBinary", !.vBinary = DecoderRead(@, s.text)]]
    ELSE IF s.t = "boolean"
    THEN [panic |-> FALSE, v |-> [v EXCEPT !.tag = "tBool", !.vBool = s.boolean]]
    ELSE IF s.t \in {"date", "dateTime"}
    THEN [panic |-> FALSE, v |-> [v EXCEPT !.tag = "tDateTime", !.vDateTime = s.dateTime]]
    ELSE IF s.t \in {"double", "float"}
    THEN [panic |-> FALSE, v |-> [v EXCEPT !.tag = "tFloat", !.vFloat = ParseFloat(s.text).val]]
    ELSE IF s.t \in {"integer", "long"}
    THEN [panic |-> FALSE, v |-> [v EXCEPT !.tag = "tInt", !.vInt = ParseInt(s.text).val]]
    ELSE IF s.t = "null"
    THEN [panic |-> FALSE, v |-> [v EXCEPT !.tag = "tNull"]]
    ELSE IF s.t = "string_"
    THEN [panic |-> FALSE, v |-> [v EXCEPT !.tag = "tString", !.vString = s.text]]
    ELSE IF s.t = "timeSpan"
    THEN [panic |-> FALSE, v |-> [v EXCEPT !.tag = "tTimeSpan", !.vTimeSpan = s.timeSpan]]
    ELSE [panic |-> TRUE, v |-> v]

----------------------------------------------------------------------------
(* Tree builder: SdlTag, SdlAttribute and the helpers of ParseIntoAst *)

\* a nil map[string]SdlAttribute
NoAttributes == [k \in {} |-> {}]

\* the zero value SdlTag{}
SdlTag == [Namespace |-> <<>>, Name |-> <<>>, QualifiedName |-> <<>>,
           Children |-> <<>>, Attributes |-> NoAttributes, Values |-> <<>>]

\* AdditionalText() + ":" + Text(), without its first character when that is ':'
QualifiedName(namespace, name) ==
    LET q == namespace \o <<":">> \o name
    IN  IF q[1] = ":" THEN Tail(q) ELSE q

SdlAttribute(s, value) ==
    [Namespace |-> s.addText, Name |-> s.text,
     QualifiedName |-> QualifiedName(s.addText, s.text), Value |-> value]

\* the tag built from a TagName token
NewTag(s) ==
    [SdlTag EXCEPT !.Name = s.text, !.Namespace = s.addText,
                   !.QualifiedName = QualifiedName(s.addText, s.text)]

\* a map store that keeps the entry a key already has
MapStoreFirst(m, key, attr) ==
    [k \in DOMAIN m \cup {key} |-> IF k \in DOMAIN m THEN m[k] ELSE attr]

\* m[key] = attr on a Go map
MapStore(m, key, attr) == [k \in DOMAIN m \cup {key} |-> IF k = key THEN attr ELSE m[k]]

\* Attributes[attr.QualifiedName] = attr on the top of the stack
SetAttribute(stack, attr) ==
    [stack EXCEPT ![Len(stack)].Attributes = MapStore(@, attr.QualifiedName, attr)]

\* a value append that lands in the tag closed last, when the top has a child
AppendValueToClosed(stack, value) ==
    IF stack[Len(stack)].Children = <<>>
    THEN [stack EXCEPT ![Len(stack)].Values = Append(@, value)]
    ELSE [stack EXCEPT ![Len(stack)].Children[Len(stack[Len(stack)].Children)].Values =
                           Append(@, value)]

\* Values = append(Values, val) on the top of the stack
AppendValue(stack, value) == [stack EXCEPT ![Len(stack)].Values = Append(@, value)]

\* parent.Children = append(parent.Children, child); currTagStack = currTagStack[0:len-1]
\* (the caller has checked that the stack holds a parent)
PopIntoParent(stack) ==
    LET n == Len(stack)
    IN  [SubSeq(stack, 1, n - 1) EXCEPT ![n - 1].Children = Append(@, stack[n])]

\* whether &currTagStack[len(currTagStack)-2] is out of range
NoParent(stack) == Len(stack) - 2 < 0

\* SaxParser.NewError(offset, msg)
NewError(s, offset, msg) == Raise(s, msg, <<s.cursor + offset>>)

\* a panic raised by ParseIntoAst or handleValue themselves
Died(s, msg) == [kind |-> "panic", s |-> s, err |-> msg]

\* a logical line that has pushed no tag and set no attribute
NoLine == [tag |-> FALSE, attrs |-> <<>>]

\* the token kinds handleValue decodes
ValueKinds == {"string_", "integer", "long", "float", "double", "boolean", "date",
               "dateTime", "timeSpan", "binary", "null"}

----------------------------------------------------------------------------
(* Bounds and inputs *)

\* an input is the concatenation of at most MaxFrags fragments
MaxFrags == 3

Fragments ==
    { <<"t">>, <<"\n">>, <<"{">>, <<"}">>,
      <<"t", "{", "\n">>,
      <<" ", "a", "=">>, <<" ", "a", "=", "1">>, <<" ", "a", "=", "2">>,
      <<" ", "n", ":", "a", "=", "2">>,
      <<" ", "t", "r", "u", "e">>, <<" ", "\"", "x", "\"">>,
      <<"\\", "\n">>, <<"#">> }

RECURSIVE Concat(_)
Concat(seqs) == IF seqs = <<>> THEN <<>> ELSE Head(seqs) \o Concat(Tail(seqs))

Inputs == UNION { {Concat(f) : f \in [1..n -> Fragments]} : n \in 0..MaxFrags }

\* the values the accessors are applied to
SdlValues ==
    {Null}
    \cup {String(x) : x \in {<<>>, <<"a">>, <<"a", "b">>}}
    \cup {SdlInt(Int64Of(x)) : x \in {0 - 1, 0, 1}}
    \cup {Float(ParseFloat(x).val) : x \in {<<"0">>, <<"1", ".", "5">>, <<"-", "2">>}}
    \cup {DateTime(x) : x \in {ZeroTime, timeDate(2005, 12, 5, 14, 12, 23, 345)}}
    \cup {TimeSpan(DurationMul(Millisecond, x)) : x \in {0, 0 - 150000, 42}}
    \cup {Bool(x) : x \in BOOLEAN}
    \cup {Binary(x) : x \in {<<>>, <<"a">>}}

NoCall == Returned("", <<>>, "")

\* the inputs of the tokenizer on its own: at most MaxSaxFrags of these fragments
MaxSaxFrags == 3

SaxFragments ==
    { <<"t">>, <<" ">>, <<"\n">>, <<"{">>, <<"}">>, <<"=">>, <<"a", "=">>,
      <<"1">>, <<"t", "r", "u", "e">>, <<"\"", "x", "\"">>, <<"\\", "\n">>,
      <<"#">>, <<"n", ":">>, <<"1", "d", ":">> }

SaxInputs == UNION { {Concat(f) : f \in [1..n -> SaxFragments]} : n \in 0..MaxSaxFrags }

\* date literals, well formed and not, and what may follow a date
DateTexts ==
    { <<"1", "1", "1", "1", "/", "1", "2", "/", "0", "1">>,
      <<"2", "0", "0", "5", "/", "0", "2", "/", "3", "0">>,
      <<"2", "0", "0", "5", "/", "1", "3", "/", "0", "1">>,
      <<"1", "1", "1", "1", "/", "1", "/", "1", "1">>,
      <<"1", "1", "1", "1", "/", "1", "1", "/", "1">>,
      <<"1", "a", "a", "a", "/", "b", "b", "/", "c", "c">>,
      <<"2", "0", "0", "5", "/", "-", "1", "/", "0", "5">>,
      <<"2", "0", "0", "5", "/", "+", "1", "/", "0", "5">>,
      <<"-", "1", "1", "1", "/", "1", "2", "/", "0", "1">>,
      <<"2", "0", "0", "5", "/", "1", "2", "/", "0">> }

DateRests ==
    { <<>>, <<" ", "1", "1", ":", "2", "2", ":", "3", "3">>,
      <<" ", "1", "1", ":", "2", "2", ":", "3", "3", ".", "4", "5", "6">>,
      <<" ", " ", "1", "1", ":", "2", "2", ":", "3", "3">>,
      <<"\t", "1", "1", ":", "2", "2", ":", "3", "3">>,
      <<" ", "\t", "1", "1", ":", "2", "2", ":", "3", "3", ".", "4", "5", "6">>,
      <<" ", "2", "2", ":", "b", "b", ":", "c", "c">>,
      <<" ", "1", "1", ":", "2", "2", ":", "3">>,
      <<" ", "1", "1", ":", "2", "2", ":", "3", "3", ".", "4", "5">>,
      <<" ", "1", "1", ":", "2", "2", ":", "3", "3", ".", "4", "5", "e">>,
      <<" ", "9", "9", ":", "9", "9", ":", "9", "9", ".", "9", "9", "9">>,
      <<" ", "1", "1", ":", "2", "2", ":", "3", "3", ".", "-", "4", "5">>, <<"\n">>,
      <<" ", "1">> }

DateInputs == {d \o r : d \in DateTexts, r \in DateRests}

\* duration literals: a sign, a day prefix, the fields, and what may follow
SpanSigns == { <<>>, <<"-">> }

SpanDays ==
    { <<>>,
      <<"0", "d", ":">>,
      <<"1", "d", ":">>,
      <<"5", "5", "d", ":">>,
      <<"1", "0", "6", "7", "5", "1", "d", ":">>,
      <<"1", "0", "6", "7", "5", "2", "d", ":">>,
      <<"2", "1", "3", "5", "0", "4", "d", ":">>,
      <<"9", "9", "9", "9", "9", "9", "9", "9", "9", "9", "9", "9", "9", "9", "9", "9", "9", "9", "9", "9", ".", "5", "d", ":">>,
      <<"1", "d">>,
      <<"1", ".", "5", "d", ":">> }

SpanFields ==
    { <<>>,
      <<"1", "1", ":", "2", "2", ":", "3", "3">>,
      <<"1", "1", ":", "2", "2", ":", "3", "3", ".", "4", "4", "4">>,
      <<"0", "0", ":", "0", "2", ":", "3", "0">>,
      <<"2", "3", ":", "5", "9", ":", "5", "9", ".", "9", "9", "9">>,
      <<"9", "9", ":", "9", "9", ":", "9", "9", ".", "9", "9", "9">>,
      <<"1", "1", ":", "2", "2", ":">>,
      <<"1", "1", ":", "2", "2">>,
      <<"1", "1", ":", "b", "b", ":", "c", "c">>,
      <<"1", "1", ":", "2", "2", ":", "3">>,
      <<"1", ":", "2", "2", ":", "3", "3">>,
      <<"1", "1", ":", "2", ":", "3", "3">>,
      <<"1", "1", "1", ":", "2", "2", ":", "3", "3">>,
      <<"1", "1", ":", "-", "2", ":", "3", "3">>,
      <<"1", "1", ":", "2", "2", ":", "3", "3", ".", "4", "4">>,
      <<"1", "1", ":", "2", "2", ":", "3", "3", ".", "4", "e", "4">>,
      <<"1", "1", "-", "2", "2", "-", "3", "3">> }

SpanTails == { <<>>, <<" ", "x">> }

\* every literal starts with a digit or `-`: the tokenizer reads anything else as
\* something other than a number
SpanInputs ==
    { i \in {s \o d \o f \o r : s \in SpanSigns, d \in SpanDays, f \in SpanFields, r \in SpanTails} :
          i # <<>> /\ (isDigit(i[1]) \/ i[1] = "-") }

\* number literals: the digit run, a suffix, and what follows the number
NumDigits ==
    { <<"1">>,
      <<"1", "2", "3">>,
      <<"1", "2", "3", ".", "4", "5", "6">>,
      <<"-", "1", "2", "3">>,
      <<"-", "1", "2", "3", ".", "4", "5", "6">>,
      <<"-">>,
      <<"1", ".">>,
      <<"2", ".", ".">>,
      <<"1", ".", "2", ".", "3">>,
      <<"1", "2", "3", "4", "5">> }

NumSuffixes ==
    { <<>>,
      <<"L">>,
      <<"F">>,
      <<"D">> }

NumFollows ==
    { <<>>,
      <<" ">>,
      <<"\t">>,
      <<"\n">>,
      <<"\r">>,
      <<"\r", "\n">>,
      <<"b">>,
      <<"=">>,
      <<" ", "7">>,
      <<"\t", "7">>,
      <<" ", "/", "/", " ", "c">>,
      <<"}">>,
      <<"-">> }

NumInputs == {n \o x \o f : n \in NumDigits, x \in NumSuffixes, f \in NumFollows}

\* double-quoted literals: an opening quote and at most MaxStrFrags of these
\* fragments (characters, the five escapes, a backslash-newline, a raw newline, a
\* lone backslash, a quote)
MaxStrFrags == 3

StrFragments ==
    { <<"a">>, <<" ">>, <<"\\", "n">>, <<"\\", "t">>, <<"\\", "r">>, <<"\\", "\"">>,
      <<"\\", "\\">>, <<"\\", "\n">>, <<"\n">>, <<"\\">>, <<"\"">> }

StrInputs == UNION { {<<"\"">> \o Concat(f) : f \in [1..n -> StrFragments]} : n \in 0..MaxStrFrags }

\* binary literals after a tag name: what stands between the brackets, whether the
\* literal is closed, and the end of the line
BinHeads ==
    { <<"t", " ", "[">>,
      <<"t", " ", "a", "=", "[">> }

BinBodies ==
    { <<>>,
      <<"Y", "Q">>,
      <<"Y", "W", "I">>,
      <<"Y", "W", "J", "j">>,
      <<"Y", "W", " ", "J", "j">>,
      <<"Y", "W", "\n", "J", "j">>,
      <<"Y", "\t", "Q">> }

BinTails == { <<>>, <<"]">>, <<"]", "\n">> }

BinInputs == {h \o b \o e : h \in BinHeads, b \in BinBodies, e \in BinTails}

\* numbers and what follows them within the next few characters
LookHeads ==
    { <<>>,
      <<"t", " ">> }

LookNumbers ==
    { <<"1">>,
      <<"1", "2">>,
      <<"1", "2", "3">>,
      <<"1", "2", "3", "4">>,
      <<"-", "1">>,
      <<"2", "0", "2", "4">>,
      <<"1", "2", "3", "4", "5">> }

LookRests ==
    { <<>>,
      <<" ", "\"", "a", "/", "b", "\"">>,
      <<"/", "0", "5", "/", "0", "6">>,
      <<" ", "/", "x">>,
      <<" ", " ", "/">>,
      <<" ", " ", " ", "/">>,
      <<" ", "b">>,
      <<"\n", "1", "/", "2">>,
      <<" ", "7", "/", "8", " ", "9">> }

LookInputs == {h \o n \o r : h \in LookHeads, n \in LookNumbers, r \in LookRests}

\* integer literals as a tag's value or attribute: small ones, a lone sign, a
\* decimal point before the suffix, and literals around the ends of the int64 range
IntHeads ==
    { <<"t", " ">>,
      <<"t", " ", "a", "=">> }

IntLiterals ==
    { <<"0">>,
      <<"7">>,
      <<"-", "7">>,
      <<"4", "2", "L">>,
      <<"-">>,
      <<"-", "L">>,
      <<"1", ".", "5", "L">>,
      <<"0", "0", "7">>,
      <<"-", "0">>,
      <<"2", "1", "4", "7", "4", "8", "3", "6", "4", "8">>,
      <<"9", "2", "2", "3", "3", "7", "2", "0", "3", "6", "8", "5", "4", "7", "7", "5", "8", "0", "7">>,
      <<"9", "2", "2", "3", "3", "7", "2", "0", "3", "6", "8", "5", "4", "7", "7", "5", "8", "0", "8">>,
      <<"-", "9", "2", "2", "3", "3", "7", "2", "0", "3", "6", "8", "5", "4", "7", "7", "5", "8", "0", "8">>,
      <<"-", "9", "2", "2", "3", "3", "7", "2", "0", "3", "6", "8", "5", "4", "7", "7", "5", "8", "0", "9">>,
      <<"9", "9", "9", "9", "9", "9", "9", "9", "9", "9", "9", "9", "9", "9", "9", "9", "9", "9", "9", "9">>,
      <<"9", "9", "9", "9", "9", "9", "9", "9", "9", "9", "9", "9", "9", "9", "9", "9", "9", "9", "9", "9", ".", "5", "L">>,
      <<"1", "2", "3", "4", "5", "6", "7", "8", "9", "0", "1", "2", "L">> }

IntTails ==
    { <<>>,
      <<"\n">>,
      <<" ", "5">>,
      <<"x">> }

IntInputs == {h \o n \o e : h \in IntHeads, n \in IntLiterals, e \in IntTails}

\* the inputs made of blanks only: at most MaxBlank spaces and tabs
MaxBlank == 5

BlankInputs == UNION { [1..n -> {" ", "\t"}] : n \in 0..MaxBlank }

----------------------------------------------------------------------------
(* Initial state *)

ParserInit ==
    /\ sax = SaxParser
    /\ saxStatus = "ok"
    /\ saxErr = ""
    /\ saxVia = [via |-> "", comment |-> FALSE, cont |-> FALSE]
    /\ saxPrev = SaxParser
    /\ saxUsed = FALSE

AstInit ==
    /\ pc = "idle"
    /\ p = SaxParser
    /\ currTagStack = <<>>
    /\ prevWasNewLine = TRUE
    /\ result = SdlTag
    /\ err = ""
    /\ branch = ""
    /\ fresh = TRUE
    /\ pushed = 0
    /\ line = NoLine

Init ==
    /\ Input \in Inputs
    /\ ParserInit
    /\ AstInit
    /\ val = Null
    /\ got = NoCall

\* the tokenizer driven by its caller alone
InitSax ==
    /\ Input \in SaxInputs
    /\ ParserInit
    /\ AstInit
    /\ val = Null
    /\ got = NoCall

\* the tokenizer over a date, a date and a time, or something close to one
InitDate ==
    /\ Input \in DateInputs
    /\ ParserInit
    /\ AstInit
    /\ val = Null
    /\ got = NoCall

\* the tokenizer over a duration, or something close to one
InitSpan ==
    /\ Input \in SpanInputs
    /\ ParserInit
    /\ AstInit
    /\ val = Null
    /\ got = NoCall

\* the tokenizer over a number, or something close to one
InitNum ==
    /\ Input \in NumInputs
    /\ ParserInit
    /\ AstInit
    /\ val = Null
    /\ got = NoCall

\* the tokenizer over a double-quoted literal, closed or not
InitStr ==
    /\ Input \in StrInputs
    /\ ParserInit
    /\ AstInit
    /\ val = Null
    /\ got = NoCall

\* a parser over a tag with a binary literal
InitBin ==
    /\ Input \in BinInputs
    /\ ParserInit
    /\ AstInit
    /\ val = Null
    /\ got = NoCall

\* the tokenizer over a number and the characters that follow it
InitLook ==
    /\ Input \in LookInputs
    /\ ParserInit
    /\ AstInit
    /\ val = Null
    /\ got = NoCall

\* a parser over a tag with an integer literal
InitInt ==
    /\ Input \in IntInputs
    /\ ParserInit
    /\ AstInit
    /\ val = Null
    /\ got = NoCall

\* a parser over an input of blanks
InitBlank ==
    /\ Input \in BlankInputs
    /\ ParserInit
    /\ AstInit
    /\ val = Null
    /\ got = NoCall

\* a value of any variant, on which the typed accessors are called
InitValue ==
    /\ Input = <<>>
    /\ ParserInit
    /\ AstInit
    /\ val \in SdlValues
    /\ got = NoCall

----------------------------------------------------------------------------
(* The caller's own p.Next() *)

Called(r) ==
    /\ sax' = r.s
    /\ saxStatus' = r.kind
    /\ saxErr' = r.err
    /\ saxVia' = [via |-> r.via, comment |-> r.comment, cont |-> r.cont]

CallNext ==
    /\ pc = "idle"
    /\ saxStatus = "ok"
    /\ Called(SaxParserNext(sax))
    /\ saxPrev' = sax
    /\ saxUsed' = TRUE
    /\ UNCHANGED <<Input, astVars, valueVars>>

----------------------------------------------------------------------------
(* ParseIntoAst: its entry and one action per branch of its loop *)

\* ParseIntoAst ends: it returns (tag, e), or dies of the panic e
Exit(to, tag, e, s, br) ==
    /\ pc' = to
    /\ result' = tag
    /\ err' = e
    /\ p' = s
    /\ branch' = br
    /\ UNCHANGED <<Input, parserVars, valueVars, currTagStack, prevWasNewLine,
                   fresh, pushed, line>>

\* a failure that hands back the tree built so far with the error
FailWithTree(o, br) == Exit(IF o.kind = "panic" THEN "panic" ELSE "error",
                            IF o.kind = "panic" THEN result ELSE currTagStack[1],
                            o.err, o.s, br)

\* return SdlTag{}, err for the outcome o of Next or NewError (or the panic instead)
Fail(o, br) == Exit(IF o.kind = "panic" THEN "panic" ELSE "error",
                    IF o.kind = "panic" THEN result ELSE SdlTag, o.err, o.s, br)

\* the loop goes on to its next iteration
Continue(s, stack, nl, br, n, ln) ==
    /\ pc' = "loop"
    /\ p' = s
    /\ currTagStack' = stack
    /\ prevWasNewLine' = nl
    /\ branch' = br
    /\ pushed' = n
    /\ line' = ln
    /\ UNCHANGED <<Input, parserVars, valueVars, result, err, fresh>>

ParseIntoAst ==
    /\ pc = "idle"
    /\ saxStatus = "ok"
    /\ pc' = "loop"
    /\ p' = sax
    /\ currTagStack' = <<SdlTag>>
    /\ prevWasNewLine' = TRUE
    /\ branch' = "enter"
    /\ fresh' = ~saxUsed
    /\ pushed' = 0
    /\ line' = NoLine
    /\ UNCHANGED <<Input, parserVars, valueVars, result, err>>

\* err := p.Next(); if err != nil { return SdlTag{}, err }
LoopNextFails ==
    /\ pc = "loop"
    /\ SaxParserNext(p).kind # "ok"
    /\ Fail(SaxParserNext(p), "next")

\* the loop body on a token of kind `kind`: r is the outcome of p.Next()
Took(r, kind) == r.kind = "ok" /\ r.s.t = kind

\* if p.IsEof() { break }; return currTagStack[0], nil
AtEof(r) == Took(r, "eof") /\ Exit("done", currTagStack[1], "", r.s, "eof")

LoopEof == pc = "loop" /\ AtEof(SaxParserNext(p))

AtTagName(r) ==
    /\ Took(r, "tagName")
    /\ IF ~prevWasNewLine
       THEN Fail(NewError(r.s, 0, "TagNameNotAtLineStart"), "tagName")
       ELSE Continue(r.s, Append(currTagStack, NewTag(r.s)), FALSE, "tagName",
                     pushed + 1, [tag |-> TRUE, attrs |-> <<>>])

LoopTagName == pc = "loop" /\ AtTagName(SaxParserNext(p))

\* the attribute named by the token of s gets the value handleValue built (h)
StoreAttribute(s, s2, h) ==
    IF h.panic
    THEN Fail(Died(s2, "bug: this error should've been caught earlier on"), "attributeName")
    ELSE Continue(s2, SetAttribute(currTagStack, SdlAttribute(s, h.v)), FALSE,
                  "attributeName", pushed,
                  [line EXCEPT !.attrs = Append(@, <<QualifiedName(s.addText, s.text), h.v>>)])

\* r2 is the outcome of the second p.Next(), which reads the attribute's value
AttributeValue(s, r2) ==
    IF r2.kind # "ok" THEN Fail(r2, "attributeName")
    ELSE StoreAttribute(s, r2.s, handleValue(SdlValue, r2.s))

AtAttributeName(r) == Took(r, "attributeName") /\ AttributeValue(r.s, SaxParserNext(r.s))

LoopAttributeName == pc = "loop" /\ AtAttributeName(SaxParserNext(p))

AtNewLine(r) ==
    /\ Took(r, "newLine")
    /\ IF prevWasNewLine
       THEN Continue(r.s, currTagStack, TRUE, "newLine", pushed, NoLine)
       ELSE IF NoParent(currTagStack)
       THEN Fail(Died(r.s, "index out of range"), "newLine")
       ELSE Continue(r.s, PopIntoParent(currTagStack), TRUE, "newLine", pushed, NoLine)

LoopNewLine == pc = "loop" /\ AtNewLine(SaxParserNext(p))

\* an opening brace whose newline is not counted as the start of a line
AfterOpenTagMidLine(r2) ==
    IF r2.kind # "ok" THEN Fail(r2, "openTag")
    ELSE IF r2.s.t # "newLine"
    THEN Fail(NewError(r2.s, 0, "ExpectedNewlineAfterBrace"), "openTag")
    ELSE Continue(r2.s, currTagStack, FALSE, "openTag", pushed, NoLine)

\* r2 is the outcome of the p.Next() that follows the opening brace
AfterOpenTag(r2) ==
    IF r2.kind # "ok" THEN Fail(r2, "openTag")
    ELSE IF r2.s.t # "newLine"
    THEN Fail(NewError(r2.s, 0, "ExpectedNewlineAfterBrace"), "openTag")
    ELSE Continue(r2.s, currTagStack, TRUE, "openTag", pushed, NoLine)

AtOpenTag(r) ==
    /\ Took(r, "openTag")
    /\ IF prevWasNewLine
       THEN Fail(NewError(r.s, 0, "BraceNotOnTagLine"), "openTag")
       ELSE AfterOpenTag(SaxParserNext(r.s))

LoopOpenTag == pc = "loop" /\ AtOpenTag(SaxParserNext(p))

\* r2 is the outcome of the p.Next() that follows the closing brace
AfterCloseTag(r2) ==
    IF r2.kind # "ok" THEN Fail(r2, "closeTag")
    ELSE IF r2.s.t \notin {"newLine", "eof"}
    THEN Fail(NewError(r2.s, 0, "ExpectedNewlineAfterCloseBrace"), "closeTag")
    ELSE IF NoParent(currTagStack)
    THEN Fail(Died(r2.s, "index out of range"), "closeTag")
    ELSE Continue(r2.s, PopIntoParent(currTagStack), TRUE, "closeTag", pushed, NoLine)

\* a close brace taken without looking at what came before it on the line
AtCloseTagAnywhere(r) ==
    /\ Took(r, "closeTag")
    /\ AfterCloseTag(SaxParserNext(r.s))

AtCloseTag(r) ==
    /\ Took(r, "closeTag")
    /\ IF ~prevWasNewLine
       THEN Fail(NewError(r.s, 0, "CloseBraceNotAlone"), "closeTag")
       ELSE AfterCloseTag(SaxParserNext(r.s))

LoopCloseTag == pc = "loop" /\ AtCloseTag(SaxParserNext(p))

\* the last else: every other token is decoded by handleValue (h)
StoreValue(s, h) ==
    IF h.panic
    THEN Fail(Died(s, "bug: this error should've been caught earlier on"), "value")
    ELSE Continue(s, AppendValue(currTagStack, h.v), FALSE, "value", pushed, line)

AtValue(r) ==
    /\ r.kind = "ok"
    /\ r.s.t \notin {"eof", "tagName", "attributeName", "newLine", "openTag", "closeTag"}
    /\ StoreValue(r.s, handleValue(SdlValue, r.s))

LoopValue == pc = "loop" /\ AtValue(SaxParserNext(p))

Next ==
    \/ CallNext
    \/ ParseIntoAst
    \/ LoopNextFails
    \/ LoopEof
    \/ LoopTagName
    \/ LoopAttributeName
    \/ LoopNewLine
    \/ LoopOpenTag
    \/ LoopCloseTag
    \/ LoopValue

Spec == Init /\ [][Next]_vars

----------------------------------------------------------------------------
(* The tokenizer on its own: the caller calls Next until it fails *)

NextSax == CallNext

SpecSax == InitSax /\ [][NextSax]_vars

\* the tokenizer over dates and datetimes
NextDate == CallNext

SpecDate == InitDate /\ [][NextDate]_vars

\* the tokenizer over durations
NextSpan == CallNext

SpecSpan == InitSpan /\ [][NextSpan]_vars

\* the tokenizer over numbers
NextNum == CallNext

SpecNum == InitNum /\ [][NextNum]_vars

\* the tokenizer over double-quoted literals
NextStr == CallNext

SpecStr == InitStr /\ [][NextStr]_vars

\* the parser over a tag with a binary literal
NextBin ==
    \/ CallNext
    \/ ParseIntoAst
    \/ LoopNextFails
    \/ LoopEof
    \/ LoopTagName
    \/ LoopAttributeName
    \/ LoopNewLine
    \/ LoopValue

SpecBin == InitBin /\ [][NextBin]_vars

\* the tokenizer over numbers and what follows them
NextLook == CallNext

SpecLook == InitLook /\ [][NextLook]_vars

\* the tree builder over integer literals
NextInt ==
    \/ CallNext
    \/ ParseIntoAst
    \/ LoopNextFails
    \/ LoopEof
    \/ LoopTagName
    \/ LoopAttributeName
    \/ LoopNewLine
    \/ LoopValue

SpecInt == InitInt /\ [][NextInt]_vars

----------------------------------------------------------------------------
(* The parser over an input of blanks: the only token is the end of input *)

NextBlank ==
    \/ CallNext
    \/ ParseIntoAst
    \/ LoopEof

SpecBlank == InitBlank /\ [][NextBlank]_vars

----------------------------------------------------------------------------
(* The typed accessors, called on a value of any variant *)

\* v.String() on the value val
GetString ==
    /\ got' = AsString(val)
    /\ UNCHANGED <<Input, parserVars, astVars, val>>

\* v.Int() on the value val
GetInt ==
    /\ got' = AsInt(val)
    /\ UNCHANGED <<Input, parserVars, astVars, val>>

\* v.Float() on the value val
GetFloat ==
    /\ got' = AsFloat(val)
    /\ UNCHANGED <<Input, parserVars, astVars, val>>

\* v.DateTime() on the value val
GetDateTime ==
    /\ got' = AsDateTime(val)
    /\ UNCHANGED <<Input, parserVars, astVars, val>>

\* v.TimeSpan() on the value val
GetTimeSpan ==
    /\ got' = AsTimeSpan(val)
    /\ UNCHANGED <<Input, parserVars, astVars, val>>

\* v.Bool() on the value val
GetBool ==
    /\ got' = AsBool(val)
    /\ UNCHANGED <<Input, parserVars, astVars, val>>

\* v.Binary() on the value val
GetBinary ==
    /\ got' = AsBinary(val)
    /\ UNCHANGED <<Input, parserVars, astVars, val>>

NextValue ==
    \/ GetString
    \/ GetInt
    \/ GetFloat
    \/ GetDateTime
    \/ GetTimeSpan
    \/ GetBool
    \/ GetBinary

SpecValue == InitValue /\ [][NextValue]_vars

----------------------------------------------------------------------------
(* Properties of the tree builder (Spec) and of the accessors (SpecValue) *)

\* the number of tags in a sequence of tags, their descendants included
RECURSIVE CountTags(_)
CountTags(tags) ==
    IF tags = <<>> THEN 0
    ELSE 1 + CountTags(Head(tags).Children) + CountTags(Tail(tags))

\* the character k places before the cursor of s ("" when there is none)
Behind(s, k) ==
    IF s.cursor - k >= 0 /\ s.cursor - k < Len(Input) THEN Input[s.cursor - k + 1] ELSE ""

Returns == pc = "done"

Running == pc = "loop"

\* C1: whenever ParseIntoAst returns without an error, the stack holds exactly the
\* root and every tag pushed during the parse is a descendant of the returned root
C1_NoTagMissing ==
    Returns => /\ Len(currTagStack) = 1
               /\ CountTags(result.Children) = pushed

\* C2: in every state of ParseIntoAst and in the returned tree, the root has no
\* values and no attributes
C2_RootHoldsOnlyChildren ==
    /\ pc # "idle" => /\ currTagStack[1].Values = <<>>
                      /\ currTagStack[1].Attributes = NoAttributes
    /\ Returns => /\ result.Values = <<>>
                  /\ result.Attributes = NoAttributes

\* the variant an accessor belongs to, and the payload a value stores for it
OwnTag(accessor) ==
    CASE accessor = "String" -> "tString"
      [] accessor = "Int" -> "tInt"
      [] accessor = "Float" -> "tFloat"
      [] accessor = "DateTime" -> "tDateTime"
      [] accessor = "TimeSpan" -> "tTimeSpan"
      [] accessor = "Bool" -> "tBool"
      [] accessor = "Binary" -> "tBinary"

Payload(v, accessor) ==
    CASE accessor = "String" -> v.vString
      [] accessor = "Int" -> v.vInt
      [] accessor = "Float" -> v.vFloat
      [] accessor = "DateTime" -> v.vDateTime
      [] accessor = "TimeSpan" -> v.vTimeSpan
      [] accessor = "Bool" -> v.vBool
      [] accessor = "Binary" -> v.vBinary

\* C3: an accessor returns the stored payload with a nil error exactly when the
\* value is of the accessor's own variant, and an error for every other variant
C3_AccessorMatchesVariant ==
    got # NoCall =>
        IF val.tag = OwnTag(got.accessor)
        THEN got.err = "" /\ got.value = Payload(val, got.accessor)
        ELSE got.err # ""

\* C4: the stack always keeps the root, and a CloseBrace or a line-closing NewLine
\* that arrives when only the root is on the stack ends in a returned error: the
\* pop is never attempted without a parent
C4_BracePairingValidated ==
    /\ pc # "idle" => Len(currTagStack) >= 1
    /\ ~(pc = "panic" /\ branch \in {"closeTag", "newLine"})

\* C5: each time handleValue is called the current token is a value token, so its
\* fatal branch is never reached
C5_HandleValueNeverFatal ==
    /\ pc # "idle" /\ branch \in {"value", "attributeName"} /\ pc # "error"
          => p.t \in ValueKinds
    /\ ~(pc = "panic" /\ err = "bug: this error should've been caught earlier on")

\* the errors of the structural rules of ParseIntoAst
StructuralErrors == {"TagNameNotAtLineStart", "BraceNotOnTagLine", "ExpectedNewlineAfterBrace",
                     "CloseBraceNotAlone", "ExpectedNewlineAfterCloseBrace"}

\* C6: ParseIntoAst is fail-fast: on the first error of Next or of a structural rule
\* it stops, with the parser on the offending token, and returns that error with an
\* empty tag, never the tree built so far
C6_FailFast ==
    pc = "error" =>
        /\ result = SdlTag
        /\ err # ""
        /\ ~ENABLED Next
        /\ err = "TagNameNotAtLineStart" => p.t = "tagName"
        /\ err = "BraceNotOnTagLine" => p.t = "openTag" /\ Behind(p, 1) = "{"
        /\ err = "CloseBraceNotAlone" => p.t = "closeTag" /\ Behind(p, 1) = "}"
        /\ err = "ExpectedNewlineAfterBrace" => branch = "openTag" /\ p.t # "newLine"
        /\ err = "ExpectedNewlineAfterCloseBrace"
              => branch = "closeTag" /\ p.t \notin {"newLine", "eof"}
        /\ err \notin StructuralErrors => branch \in {"next", "attributeName", "openTag", "closeTag"}

\* an error is returned after tags were already attached to the root
C6_Witness == pc = "error" /\ currTagStack[1].Children # <<>> /\ result = SdlTag

\* the value of the last attribute of the line with the qualified name qn
LastValue(attrs, qn) ==
    attrs[CHOOSE i \in DOMAIN attrs :
              attrs[i][1] = qn /\ \A j \in DOMAIN attrs : j > i => attrs[j][1] # qn][2]

\* namespace + ":" + name when the namespace is not empty, else name
KeyOf(a) == IF a.Namespace # <<>> THEN a.Namespace \o <<":">> \o a.Name ELSE a.Name

\* C7: attributes are keyed by qualified name and a later attribute replaces an
\* earlier one of the same qualified name: after the attributes of a tag line the tag
\* holds one attribute per distinct qualified name, with the value of its last occurrence
C7_LastWriteWins ==
    Running =>
        LET top == currTagStack[Len(currTagStack)]
            names == {line.attrs[i][1] : i \in DOMAIN line.attrs}
        IN  /\ \A i \in DOMAIN currTagStack : \A k \in DOMAIN currTagStack[i].Attributes :
                  /\ KeyOf(currTagStack[i].Attributes[k]) = k
                  /\ currTagStack[i].Attributes[k].QualifiedName = k
            /\ \A qn \in names :
                  /\ qn \in DOMAIN top.Attributes
                  /\ top.Attributes[qn].Value = LastValue(line.attrs, qn)
            /\ line.tag => DOMAIN top.Attributes = names

\* a tag line has set the same qualified name twice, to different values
C7_Witness ==
    /\ Running
    /\ line.tag
    /\ \E i, j \in DOMAIN line.attrs :
          i < j /\ line.attrs[i][1] = line.attrs[j][1] /\ line.attrs[i][2] # line.attrs[j][2]

----------------------------------------------------------------------------
(* Properties of the tokenizer (SpecSax): sax is the parser after the last call of
   Next and saxPrev the parser before it *)

CalledNext == saxVia.via # ""

AtLineStart == saxPrev.t \in {"newLine", "failsafe"}

ContentText == <<"c", "o", "n", "t", "e", "n", "t">>

\* the previous call synthesised the content tag (no identifier of the inputs spells it)
AfterContentTag == CalledNext /\ saxPrev.t = "tagName" /\ saxPrev.text = ContentText

\* the character c, followed by c1, opens a comment, ends the line or continues it
OpensNoToken(c, c1) ==
    \/ c \in {"\n", "\r", "#"}
    \/ c = "/" /\ c1 = "/"
    \/ c = "-" /\ c1 = "-"
    \/ c = "\\" /\ c1 = "\n"

\* C8 as stated: at a line start, whenever the next non-blank character neither starts
\* an identifier nor is a brace, Next emits TagName "content" with the cursor left on
\* that character, and the following call lexes a value there
C8_ContentTagOnAnyOtherCharacter ==
    LET w == eatWhite(saxPrev)
    IN  /\ (/\ CalledNext /\ AtLineStart /\ ~eof(w)
            /\ ~isIdentifierStart(peek(w, 0)) /\ peek(w, 0) \notin {"{", "}"})
              => /\ saxStatus = "ok"
                 /\ sax = [w EXCEPT !.t = "tagName", !.text = ContentText]
        /\ AfterContentTag => saxStatus = "ok" /\ sax.t \in ValueKinds

\* C8, amended: at a line start, a next non-blank character that neither starts an
\* identifier, nor is a brace, nor ends or continues the line, nor opens a comment
\* makes Next emit TagName "content" with the cursor left on that character; a content
\* tag is only ever emitted so, on such a character; and the following call starts
\* lexing at that same position: it returns a value token that ends beyond it, or it
\* returns an error, or it panics, and it panics only where that character is a digit
\* or `-` (nextNumeric, as on `1d:` at the end of the input)
C8_ContentTagConsumesNothing ==
    LET w == eatWhite(saxPrev)
    IN  /\ (/\ CalledNext /\ AtLineStart /\ ~eof(w)
            /\ ~isIdentifierStart(peek(w, 0)) /\ peek(w, 0) \notin {"{", "}"}
            /\ ~OpensNoToken(peek(w, 0), peek(w, 1)))
              => /\ saxStatus = "ok"
                 /\ saxVia.via = "content"
                 /\ sax = [w EXCEPT !.t = "tagName", !.text = ContentText]
        /\ saxVia.via = "content"
              => /\ saxStatus = "ok" /\ AtLineStart
                 /\ sax.t = "tagName" /\ sax.text = ContentText
                 /\ ~eof(sax) /\ eatWhite(sax) = sax
                 /\ ~isIdentifierStart(peek(sax, 0)) /\ peek(sax, 0) \notin {"{", "}"}
                 /\ ~OpensNoToken(peek(sax, 0), peek(sax, 1))
                 /\ [sax EXCEPT !.cursor = 0] = [saxPrev EXCEPT !.cursor = 0, !.t = "tagName",
                                                               !.text = ContentText]
        /\ AfterContentTag
              => /\ ~saxVia.comment /\ ~saxVia.cont
                 /\ saxVia.via \notin {"content", "identifier", "newLine", "eof", "openTag", "closeTag"}
                 /\ saxStatus = "ok" => sax.t \in ValueKinds /\ sax.cursor > saxPrev.cursor
                 /\ saxStatus # "ok"
                       => \/ saxStatus = "err"
                          \/ /\ saxStatus = "panic"
                             /\ isDigit(peek(saxPrev, 0)) \/ peek(saxPrev, 0) = "-"

\* the call after a content tag, emitted behind skipped blanks, lexed a string there
C8_Witness ==
    /\ AfterContentTag
    /\ saxPrev.cursor > 0
    /\ saxStatus = "ok"
    /\ sax.t = "string_"

\* C9: an identifier (not a keyword literal) is a TagName exactly when the previously
\* emitted token was NewLine or there was none, else an AttributeName; a comment or a
\* line continuation emits no token of its own, NewLine included
C9_IdentifierClass ==
    /\ (saxVia.via = "identifier" /\ sax.t \notin {"boolean", "null"})
          => /\ sax.t \in {"tagName", "attributeName"}
             /\ sax.t = "tagName" <=> AtLineStart
    /\ (saxVia.via = "identifier" /\ sax.t \in {"boolean", "null"})
          => saxStatus = "ok" /\ sax.text \in {<<"t", "r", "u", "e">>, <<"f", "a", "l", "s", "e">>,
                                                <<"n", "u", "l", "l">>}
    /\ (saxVia.via = "newLine" /\ ~saxVia.comment)
          => Behind(sax, 1) = "\n" /\ Behind(sax, 2) # "\\"

\* an identifier after a line continuation on a tag line came out as an AttributeName
C9_Witness ==
    /\ saxVia.cont
    /\ saxStatus = "ok"
    /\ saxVia.via = "identifier"
    /\ saxPrev.t = "tagName"
    /\ sax.t = "attributeName"

\* C10: an identifier classified AttributeName is returned, with its `=` consumed, when
\* `=` follows it directly, and is an error (MissingEquals) otherwise; a TagName is
\* returned whatever follows it, and nothing after it is consumed
C10_AttributeNeedsEquals ==
    /\ (saxVia.via = "identifier" /\ sax.t = "attributeName")
          => \/ /\ saxStatus = "ok"
                /\ Behind(sax, 1) = "="
                /\ isIdentifierContinue(Behind(sax, 2)) \/ Behind(sax, 2) = ":"
             \/ saxStatus = "err" /\ saxErr = "MissingEquals" /\ peek(sax, 0) # "="
    /\ (saxVia.via = "identifier" /\ sax.t = "tagName")
          => /\ saxStatus = "ok"
             /\ isIdentifierContinue(Behind(sax, 1)) \/ Behind(sax, 1) = ":"
    /\ saxErr = "MissingEquals" => saxVia.via = "identifier" /\ sax.t = "attributeName"

\* an attribute name ran into the end of input, or into a character that is not `=`
C10_Witness ==
    /\ saxStatus = "err"
    /\ saxErr = "MissingEquals"
    /\ saxPrev.t = "tagName"

\* C11: once Next has set the token to Eof, every further call returns nil and leaves
\* the parser as it was, cursor and token kind included, however often it is repeated
C11_EofAbsorbing ==
    (CalledNext /\ saxPrev.t = "eof") => saxStatus = "ok" /\ sax = saxPrev

\* Next was called again on a non-empty input that had already reached its end
C11_Witness ==
    /\ CalledNext
    /\ saxPrev.t = "eof"
    /\ sax.t = "eof"
    /\ Input # <<>>

----------------------------------------------------------------------------
(* Properties of the parser over blank input (SpecBlank) *)

\* C12: on an input of spaces and tabs only (the empty input included) Next yields
\* Eof without error, and ParseIntoAst meets nothing but the end of input and
\* succeeds with a root that has no children, no values and no attributes
C12_BlankInputIsEmptyTree ==
    /\ CalledNext => saxStatus = "ok" /\ sax.t = "eof" /\ sax.cursor = Len(Input)
    /\ pc \notin {"error", "panic"}
    /\ Running => SaxParserNext(p).kind = "ok" /\ SaxParserNext(p).s.t = "eof"
    /\ Returns => err = "" /\ result = SdlTag /\ Len(currTagStack) = 1

\* ParseIntoAst has returned on an input that holds both a space and a tab
C12_Witness ==
    /\ Returns
    /\ fresh
    /\ \E i, j \in DOMAIN Input : Input[i] = " " /\ Input[j] = "\t"

----------------------------------------------------------------------------
(* Properties of dates and datetimes (SpecDate) *)

\* the character at offset i of the input ("" outside of it)
CharAt(i) == IF i >= 0 /\ i < Len(Input) THEN Input[i + 1] ELSE ""

\* the value of the decimal digits Input[a:b]
NumberAt(a, b) == DigitsVal(SubSeq(Input, a + 1, b))

AllDigits(a, b) == \A i \in a..(b - 1) : isDigit(CharAt(i))

\* where the literal lexed by the last call starts: behind the blanks before it
LiteralStart == eatWhiteFrom(saxPrev.cursor)

\* the last call lexed a literal that starts like a number (the call before it
\* produced the content tag, or a token of the same line)
LexedNumeric ==
    /\ CalledNext
    /\ ~AtLineStart
    /\ saxPrev.t # "eof"
    /\ isDigit(CharAt(LiteralStart)) \/ CharAt(LiteralStart) = "-"

\* four digits, `/`, two digits, `/`, two digits at offset a
FixedWidthDate(a) ==
    /\ AllDigits(a, a + 4) /\ CharAt(a + 4) = "/"
    /\ AllDigits(a + 5, a + 7) /\ CharAt(a + 7) = "/"
    /\ AllDigits(a + 8, a + 10)

\* C13: the fraction .fff of a DateTime literal is fff milliseconds, that is
\* fff * 1,000,000 nanoseconds, on top of the HH:MM:SS read before it
C13_FractionIsMilliseconds ==
    (/\ saxStatus = "ok" /\ saxVia.via = "dateTime"
     /\ Behind(sax, 4) = "." /\ AllDigits(sax.cursor - 3, sax.cursor)
     /\ AllDigits(sax.cursor - 6, sax.cursor - 4)
     /\ NumberAt(sax.cursor - 6, sax.cursor - 4) < 60)
        => /\ sax.dateTime.nsec = NumberAt(sax.cursor - 3, sax.cursor) * 1000000
           /\ sax.dateTime.sec = NumberAt(sax.cursor - 6, sax.cursor - 4)

\* C16: a date is accepted only as four digits, `/`, two digits, `/`, two digits, and
\* then is the Date of that year, month and day at 00:00:00; any other text with a
\* `/` in the place of the first separator is an error (MalformedDate)
C16_DateIsFixedWidth ==
    /\ (saxStatus = "ok" /\ saxVia.via \in {"date", "dateTime"}) => FixedWidthDate(LiteralStart)
    /\ (saxStatus = "ok" /\ saxVia.via = "date")
          => /\ sax.t = "date"
             /\ sax.cursor = LiteralStart + 10
             /\ sax.dateTime = [year |-> NumberAt(LiteralStart, LiteralStart + 4),
                                month |-> NumberAt(LiteralStart + 5, LiteralStart + 7),
                                day |-> NumberAt(LiteralStart + 8, LiteralStart + 10),
                                hour |-> 0, min |-> 0, sec |-> 0, nsec |-> 0]
    /\ (LexedNumeric /\ CharAt(LiteralStart + 4) = "/" /\ ~FixedWidthDate(LiteralStart))
          => saxStatus = "err" /\ saxErr = "MalformedDate"

\* C17: a date, then blanks in any number, then two digits and a colon are lexed as
\* one DateTime token, never as a Date token with the time left for the next call
C17_DateTimeAfterAnyBlanks ==
    LET a == LiteralStart
        b == eatWhiteFrom(a + 10)
    IN  (/\ LexedNumeric /\ FixedWidthDate(a)
         /\ b > a + 10 /\ AllDigits(b, b + 2) /\ CharAt(b + 2) = ":")
            => /\ saxVia.via # "date"
               /\ saxStatus = "ok" => sax.t = "dateTime"

-----------------------------------------------------------------------------
(* Properties of durations (SpecSpan) *)

RECURSIVE DigitRunEnd(_)
DigitRunEnd(i) == IF isDigit(CharAt(i)) THEN DigitRunEnd(i + 1) ELSE i

\* the literal's first digit, after the optional sign, and the end of its digit run
SpanSignEnd == IF CharAt(LiteralStart) = "-" THEN LiteralStart + 1 ELSE LiteralStart
SpanRunEnd == DigitRunEnd(SpanSignEnd)

\* the last call read a duration literal: a digit run followed by `d` or `:`
LexedDuration ==
    /\ LexedNumeric
    /\ CharAt(LiteralStart + 4) # "/"
    /\ SpanRunEnd > SpanSignEnd
    /\ CharAt(SpanRunEnd) \in {"d", ":"}

HasDayPrefix == CharAt(SpanRunEnd) = "d" /\ CharAt(SpanRunEnd + 1) = ":"
SpanFieldsAt == IF HasDayPrefix THEN SpanRunEnd + 2 ELSE SpanSignEnd

\* HH:MM:SS in two digits each, and three digits after a `.` if there is one
WellFormedFields(b) ==
    /\ AllDigits(b, b + 2) /\ CharAt(b + 2) = ":"
    /\ AllDigits(b + 3, b + 5) /\ CharAt(b + 5) = ":"
    /\ AllDigits(b + 6, b + 8)
    /\ CharAt(b + 8) = "." => AllDigits(b + 9, b + 12)

\* s * (D*24h + HH*1h + MM*1min + SS*1s + fff*1ms) as a number, without overflow
SpanOf(sign, b) ==
    Duration(sign * (24 * (IF HasDayPrefix THEN NumberAt(SpanSignEnd, SpanRunEnd) ELSE 0)
                     + NumberAt(b, b + 2)),
             sign * (60000 * NumberAt(b + 3, b + 5) + 1000 * NumberAt(b + 6, b + 8)
                     + (IF CharAt(b + 8) = "." THEN NumberAt(b + 9, b + 12) ELSE 0)),
             0)

\* C14: a well-formed duration literal, with any number of days, is a TimeSpan token
\* whose value is s * (D*24h + HH*1h + MM*1min + SS*1s + fff*1ms), without wrap-around;
\* a `-` in front makes the whole value negative, once
C14_TimeSpanValue ==
    (LexedDuration /\ WellFormedFields(SpanFieldsAt)) =>
        /\ saxStatus = "ok"
        /\ sax.t = "timeSpan"
        /\ sax.timeSpan = SpanOf(IF CharAt(LiteralStart) = "-" THEN 0 - 1 ELSE 1, SpanFieldsAt)

\* C15: a duration literal whose fields are not two digits each, whose colons are
\* missing or which the end of input cuts short makes Next return MalformedTimeSpan:
\* it is no token and the call does not die of an out-of-range read
C15_MalformedTimeSpanIsError ==
    (LexedDuration /\ ~WellFormedFields(SpanFieldsAt)) =>
        saxStatus = "err" /\ saxErr = "MalformedTimeSpan"

-----------------------------------------------------------------------------
(* Properties of numbers (SpecNum) *)

\* the end of the run of digits and decimal points that starts at i
RECURSIVE DotRunEnd(_)
DotRunEnd(i) == IF isDigit(CharAt(i)) \/ CharAt(i) = "." THEN DotRunEnd(i + 1) ELSE i

NumRunEnd == DotRunEnd(SpanSignEnd)
NumDots == Cardinality({i \in LiteralStart..(NumRunEnd - 1) : CharAt(i) = "."})

\* the position after the number and its optional suffix
NumEnd == IF CharAt(NumRunEnd) \in {"L", "F", "D"} THEN NumRunEnd + 1 ELSE NumRunEnd

\* the last call read a number: a digit run that neither `/` makes a date nor
\* `d` or `:` a duration
LexedNumber ==
    /\ LexedNumeric
    /\ CharAt(NumRunEnd) \notin {"/", "d", ":"}

NumberKinds == {"integer", "long", "float", "double"}

\* C18: a number is accepted exactly when the character after it and its optional
\* suffix is a space, a tab, a newline (LF or CR) or the end of input; any other
\* character is TrailingGarbageAfterNumber, a second decimal point MultipleDecimalPoints
C18_NumberNeedsSeparator ==
    LexedNumber =>
        IF NumDots >= 2
        THEN saxStatus = "err" /\ saxErr = "MultipleDecimalPoints"
        ELSE IF NumEnd >= Len(Input) \/ CharAt(NumEnd) \in {" ", "\t", "\n", "\r"}
        THEN saxStatus = "ok" /\ sax.t \in NumberKinds /\ sax.cursor = NumEnd
        ELSE saxStatus = "err" /\ saxErr = "TrailingGarbageAfterNumber"

\* C19: an accepted number is Long with suffix L, Float with F, Double with D; without
\* suffix it is Integer if it has no decimal point and Double if it has one; its text
\* is the digit run with the leading `-` and the decimal point, without the suffix
C19_NumericClassification ==
    (LexedNumber /\ saxStatus = "ok" /\ saxVia.via = "number") =>
        /\ sax.text = Slice(LiteralStart, NumRunEnd)
        /\ sax.t = CASE CharAt(NumRunEnd) = "L" -> "long"
                     [] CharAt(NumRunEnd) = "F" -> "float"
                     [] CharAt(NumRunEnd) = "D" -> "double"
                     [] OTHER -> IF NumDots = 0 THEN "integer" ELSE "double"

\* a negative number with a decimal point and no suffix was accepted
C19_Witness ==
    /\ LexedNumber /\ saxStatus = "ok" /\ saxVia.via = "number"
    /\ CharAt(LiteralStart) = "-"
    /\ NumDots = 1
    /\ NumEnd = NumRunEnd
    /\ sax.t = "double"

-----------------------------------------------------------------------------
(* Properties of double-quoted strings (SpecStr) *)

\* the last call read a double-quoted literal, which opens at LiteralStart
LexedString ==
    /\ CalledNext /\ ~AtLineStart /\ saxPrev.t # "eof"
    /\ CharAt(LiteralStart) = "\""

Escapes == {"n", "t", "r", "\"", "\\"}

\* how the literal ends, reading from offset i: "closed" at its closing quote, "open"
\* at a raw newline or the end of input, "escape" at an escape character that is
\* none of Escapes and no newline
RECURSIVE StringStop(_)
StringStop(i) ==
    IF i >= Len(Input) \/ CharAt(i) = "\n" THEN [why |-> "open", at |-> i]
    ELSE IF CharAt(i) = "\"" THEN [why |-> "closed", at |-> i]
    ELSE IF CharAt(i) # "\\" THEN StringStop(i + 1)
    ELSE IF CharAt(i + 1) \in Escapes THEN StringStop(i + 2)
    ELSE IF CharAt(i + 1) = "\n" THEN StringStop(eatWhiteFrom(i + 2))
    ELSE IF i + 1 >= Len(Input) THEN [why |-> "open", at |-> i + 1]
    ELSE [why |-> "escape", at |-> i + 1]

\* the source text from offset i to the closing quote, each escape replaced by its
\* character and each backslash-newline dropped with the blanks after it
RECURSIVE Unescaped(_, _)
Unescaped(i, close) ==
    IF i >= close THEN <<>>
    ELSE IF CharAt(i) # "\\" THEN <<CharAt(i)>> \o Unescaped(i + 1, close)
    ELSE IF CharAt(i + 1) = "\n" THEN Unescaped(eatWhiteFrom(i + 2), close)
    ELSE <<CASE CharAt(i + 1) = "n" -> "\n"
             [] CharAt(i + 1) = "t" -> "\t"
             [] CharAt(i + 1) = "r" -> "\r"
             [] OTHER -> CharAt(i + 1)>> \o Unescaped(i + 2, close)

\* C20: a double-quoted literal with the escapes \n \t \r \" \\ and backslash-newline
\* is a String token whose text is the source between the quotes, escapes replaced
\* and backslash-newlines dropped with the blanks that follow; any other escape
\* character is InvalidEscape; a raw newline or the end of input before the closing
\* quote is UnterminatedString
C20_DoubleQuotedString ==
    LexedString =>
        CASE StringStop(LiteralStart + 1).why = "closed" ->
                 /\ saxStatus = "ok"
                 /\ sax.t = "string_"
                 /\ sax.text = Unescaped(LiteralStart + 1, StringStop(LiteralStart + 1).at)
                 /\ sax.cursor = StringStop(LiteralStart + 1).at + 1
          [] StringStop(LiteralStart + 1).why = "escape" ->
                 saxStatus = "err" /\ saxErr = "InvalidEscape"
          [] OTHER -> saxStatus = "err" /\ saxErr = "UnterminatedString"

-----------------------------------------------------------------------------
(* Properties of binary literals (SpecBin) *)

\* the alphabet of base64.RawStdEncoding: the character at place k stands for k - 1
Base64Alphabet ==
    <<"A", "B", "C", "D", "E", "F", "G", "H", "I", "J", "K", "L", "M", "N", "O", "P",
      "Q", "R", "S", "T", "U", "V", "W", "X", "Y", "Z", "a", "b", "c", "d", "e", "f",
      "g", "h", "i", "j", "k", "l", "m", "n", "o", "p", "q", "r", "s", "t", "u", "v",
      "w", "x", "y", "z", "0", "1", "2", "3", "4", "5", "6", "7", "8", "9", "+", "/">>

Base64Val(ch) == (CHOOSE k \in DOMAIN Base64Alphabet : Base64Alphabet[k] = ch) - 1

\* the bytes (0..255) that unpadded base64 text stands for: three for every four
\* characters, one for two characters left over, two for three
RECURSIVE Base64Decode(_)
Base64Decode(text) ==
    IF Len(text) < 2 THEN <<>>
    ELSE LET v(k) == IF k <= Len(text) THEN Base64Val(text[k]) ELSE 0
             n == v(1) * 262144 + v(2) * 4096 + v(3) * 64 + v(4)
             bytes == <<n \div 65536, (n \div 256) % 256, n % 256>>
         IN  IF Len(text) >= 4 THEN bytes \o Base64Decode(SubSeq(text, 5, Len(text)))
             ELSE SubSeq(bytes, 1, Len(text) - 1)

\* the characters between the `[` of the input and its `]`, blanks and newlines removed
BinaryLiteral ==
    LET open == CHOOSE i \in 0..Len(Input) : CharAt(i) = "["
        close == CHOOSE i \in 0..Len(Input) : CharAt(i) = "]"
    IN  SelectSeq(Slice(open + 1, close), LAMBDA ch : ch \notin {" ", "\t", "\n", "\r"})

\* the values and attribute values of the tags on the stack
StackValues ==
    UNION { {currTagStack[i].Values[j] : j \in DOMAIN currTagStack[i].Values}
            \cup {currTagStack[i].Attributes[k].Value : k \in DOMAIN currTagStack[i].Attributes} :
            i \in DOMAIN currTagStack }

\* C21: the Binary value built from a literal `[...]` holds the bytes that the literal's
\* characters, blanks and newlines removed, stand for in base64; a literal that is
\* not empty gives a value that is not empty
C21_BinaryIsDecoded ==
    \A v \in StackValues :
        v.tag = "tBinary" => v.vBinary = Base64Decode(BinaryLiteral)

-----------------------------------------------------------------------------
(* Properties of the tree builder: braces and nesting (Spec) *)

\* the loop is about to take a close brace: the token and the token after it
ClosesBrace == pc = "loop" /\ Took(SaxParserNext(p), "closeTag")
AfterBrace == SaxParserNext(SaxParserNext(p).s)

\* C22: a close brace that follows a tag name, attribute or value on its line makes
\* ParseIntoAst return CloseBraceNotAlone, and a close brace followed by a token that
\* is neither NewLine nor the end of input makes it return an error; no node is
\* popped in either case
C22_CloseBraceAlone ==
    [][/\ (ClosesBrace /\ ~prevWasNewLine) =>
              /\ pc' = "error" /\ err' = "CloseBraceNotAlone"
              /\ result' = SdlTag /\ currTagStack' = currTagStack
       /\ (ClosesBrace /\ prevWasNewLine /\ AfterBrace.kind = "ok"
               /\ AfterBrace.s.t \notin {"newLine", "eof"}) =>
              /\ pc' = "error" /\ err' = "ExpectedNewlineAfterCloseBrace"
              /\ result' = SdlTag /\ currTagStack' = currTagStack]_vars

\* a close brace after a tag name on the same line was refused, with the tag still
\* on the stack
C22_Witness ==
    /\ pc = "error" /\ branch = "closeTag" /\ err = "CloseBraceNotAlone"
    /\ ~prevWasNewLine
    /\ Len(currTagStack) = 2

\* the number of braces open after the tokens the parser p has read, counted by
\* lexing the input again from its start (below zero: a close brace had no partner)
RECURSIVE BraceDepthFrom(_, _)
BraceDepthFrom(s, d) ==
    IF s = p \/ d < 0 THEN d
    ELSE BraceDepthFrom(SaxParserNext(s).s,
                        d + (CASE SaxParserNext(s).s.t = "openTag" -> 1
                               [] SaxParserNext(s).s.t = "closeTag" -> 0 - 1
                               [] OTHER -> 0))

BraceDepth == BraceDepthFrom(SaxParser, 0)

EndsInNewLine == Input # <<>> /\ Input[Len(Input)] = "\n"

\* C23: the stack holds the root, one tag for every brace still open and, inside a
\* line, the tag of that line: a tag without `{` is popped at its NewLine, a tag with
\* `{` at its matching `}`; and a parse of an input with balanced braces that ends in
\* a newline returns a tree that holds every tag
C23_NestingFollowsBraces ==
    /\ (Running /\ fresh /\ BraceDepth >= 0) =>
           Len(currTagStack) = 1 + BraceDepth + (IF prevWasNewLine THEN 0 ELSE 1)
    /\ (Returns /\ fresh /\ EndsInNewLine /\ BraceDepth = 0) =>
           /\ Len(currTagStack) = 1
           /\ CountTags(result.Children) = pushed

IsPrefix(a, b) == Len(a) <= Len(b) /\ SubSeq(b, 1, Len(a)) = a

\* C24: a tag that was popped and appended to its parent never changes again: in
\* every step of the loop the children of each tag on the stack stay as they are,
\* but for the one tag a pop appends, which is the popped tag as it was; and the
\* parse returns the root as the stack holds it
C24_ClosedTagsImmutable ==
    [][/\ (pc = "loop" /\ pc' = "loop") =>
              \A i \in DOMAIN currTagStack' :
                  i \in DOMAIN currTagStack =>
                      /\ IsPrefix(currTagStack[i].Children, currTagStack'[i].Children)
                      /\ currTagStack'[i].Children # currTagStack[i].Children =>
                             /\ i = Len(currTagStack') /\ i = Len(currTagStack) - 1
                             /\ currTagStack'[i].Children =
                                    Append(currTagStack[i].Children, currTagStack[i + 1])
       /\ (pc = "loop" /\ pc' = "done") =>
              currTagStack' = currTagStack /\ result' = currTagStack[1]]_vars

\* a tag is closed under the root, it holds a value, and a later tag is on the stack
C24_Witness ==
    /\ Running
    /\ Len(currTagStack) >= 2
    /\ currTagStack[1].Children # <<>>
    /\ currTagStack[1].Children[1].Values # <<>>
    /\ branch = "value"

----------------------------------------------------------------------------
(* Properties of the tokenizer: a number or a date (SpecLook) *)

\* the literal starts with a run of four digits immediately followed by `/`
FourDigitsSlash ==
    /\ \A k \in 0..3 : isDigit(CharAt(LiteralStart + k))
    /\ CharAt(LiteralStart + 4) = "/"

\* the literal is a run of digits with an optional sign, ended by a blank, a
\* newline or the end of the input
PlainInteger ==
    /\ SpanRunEnd > SpanSignEnd
    /\ SpanRunEnd >= Len(Input) \/ CharAt(SpanRunEnd) \in {" ", "\t", "\n", "\r"}

\* C25: numeric text is lexed as a Date only when it starts with four digits
\* immediately followed by `/`; what follows a number's delimiter does not change
\* its kind: a run of digits ended by a blank is an Integer that ends at the blank
C25_DateNeedsFourDigitsSlash ==
    (LexedNumeric /\ ~FourDigitsSlash) =>
        /\ saxVia.via \notin {"date", "dateTime"}
        /\ saxErr \notin {"MalformedDate", "MalformedDateTime"}
        /\ PlainInteger =>
               saxStatus = "ok" /\ sax.t = "integer" /\ sax.cursor = SpanRunEnd

----------------------------------------------------------------------------
(* Properties of the tokenizer: progress of the cursor (SpecSpan) *)

\* the last call synthesised the content tag
YieldedContentTag == sax.t = "tagName" /\ sax.text = ContentText

\* C26: across successful calls of Next the cursor never decreases, not even where
\* a duration backtracks; a successful call that yields neither the content tag nor
\* Eof moves it forward; the call after a content tag moves it forward or fails:
\* so at most two calls go by per character before Eof or a failure
C26_CursorProgress ==
    (CalledNext /\ saxStatus = "ok") =>
        /\ sax.cursor >= saxPrev.cursor
        /\ sax.cursor <= Len(Input)
        /\ (sax.t # "eof" /\ ~YieldedContentTag) => sax.cursor > saxPrev.cursor
        /\ AfterContentTag => sax.cursor > saxPrev.cursor /\ ~YieldedContentTag

\* a duration without day prefix was read, through the backtracking, after a content tag
C26_Witness ==
    /\ LexedDuration
    /\ ~HasDayPrefix
    /\ AfterContentTag
    /\ saxStatus = "ok"
    /\ sax.t = "timeSpan"
    /\ sax.cursor >= saxPrev.cursor + 8

----------------------------------------------------------------------------
(* Properties of the tokenizer: the content tag's namespace (SpecSax) *)

\* C27: the synthesised content tag is anonymous: its secondary text is empty, and
\* the tag the builder makes of it has the namespace "" and the qualified name
\* "content", whatever namespaced identifier was read before
C27_ContentTagAnonymous ==
    (CalledNext /\ saxStatus = "ok" /\ YieldedContentTag) =>
        /\ sax.addText = <<>>
        /\ NewTag(sax).Namespace = <<>>
        /\ NewTag(sax).QualifiedName = ContentText

----------------------------------------------------------------------------
(* Properties of the tree builder: tag names and line starts (Spec) *)

\* C28: on a freshly constructed parser, whenever Next yields a TagName the
\* builder's prevWasNewLine is true, so the error for a tag name that is not at
\* the start of a line is never returned
C28_TagNameAtLineStart ==
    fresh =>
        /\ (pc = "loop" /\ Took(SaxParserNext(p), "tagName")) => prevWasNewLine
        /\ err # "TagNameNotAtLineStart"

\* a tag name was taken inside a block, after the newline that follows the brace
C28_Witness ==
    /\ fresh
    /\ pc = "loop"
    /\ branch = "tagName"
    /\ Len(currTagStack) >= 3
    /\ ~prevWasNewLine

----------------------------------------------------------------------------
(* Properties of the tokenizer: the offsets of its errors (SpecSpan) *)

\* the offsets the last call of Next handed to getLine
ErrorOffsets == SaxParserNext(saxPrev).ats

\* C29: every offset an error hands to getLine lies within 0..len(Input), the
\* duration errors at cursor+2, cursor+5 and cursor+9 included, so that building
\* the error never reads outside the input
C29_ErrorOffsetsWithinInput ==
    (CalledNext /\ saxStatus # "ok") =>
        /\ \A i \in DOMAIN ErrorOffsets :
               ErrorOffsets[i] >= 0 /\ ErrorOffsets[i] <= Len(Input)
        /\ saxStatus # "panic"

----------------------------------------------------------------------------
(* Properties of the tree builder: integers (SpecInt) *)

\* the text is an optional `-` followed by one or more digits
IntegerText(text) ==
    LET body == IF text # <<>> /\ text[1] = "-" THEN Tail(text) ELSE text
    IN  body # <<>> /\ \A i \in 1..Len(body) : isDigit(body[i])

\* the number an integer text of at most 21 digits denotes, whatever its size
DecimalValue(text) ==
    LET neg == text[1] = "-"
        ds == IF neg THEN Tail(text) ELSE text
        padded == [i \in 1..(21 - Len(ds)) |-> "0"] \o ds
    IN  Int64(neg, DigitsVal(SubSeq(padded, 1, 9)), DigitsVal(SubSeq(padded, 10, 15)),
              DigitsVal(SubSeq(padded, 16, 21)))

WithinInt64(n) ==
    IF n.neg THEN ~MagnitudeLess(MinInt64, n) ELSE ~MagnitudeLess(MaxInt64, n)

\* the value the last iteration of the loop built, as a value or for an attribute
LastBuilt ==
    IF branch = "value"
    THEN currTagStack[Len(currTagStack)].Values[Len(currTagStack[Len(currTagStack)].Values)]
    ELSE line.attrs[Len(line.attrs)][2]

\* C30: for every Integer or Long token the builder takes, the text is an optional
\* `-` and at least one digit, within the int64 range, and the value built is the
\* Int64 of the number the text denotes: the conversion never fails, and never
\* yields 0 or an end of the range instead
C30_IntegerValueExact ==
    (pc = "loop" /\ branch \in {"value", "attributeName"} /\ p.t \in {"integer", "long"}) =>
        /\ IntegerText(p.text)
        /\ WithinInt64(DecimalValue(p.text))
        /\ ParseInt(p.text).ok
        /\ LastBuilt = SdlInt(DecimalValue(p.text))

=============================================================================
